---- MODULE Spec2Model ----
(***************************************************************************)
(* yabte back-testing engine: the runner's event loop, the order queue,    *)
(* the order state machine and the book ledger                             *)
(* (src/yabte/backtest/{strategyrunner,strategy,order,book,transaction,    *)
(* asset}.py).                                                             *)
(*                                                                         *)
(* Units.  Decimal values are kept exact as scaled integers:               *)
(*   quantities and positions in 10^-quantity_round_dp  (hundredths),      *)
(*   prices in 10^-price_round_dp                        (cents),          *)
(*   cash and transaction totals in 10^-(2+2)            (1e-4),           *)
(*   order sizes as a fraction size_n / size_d, weights as integers.       *)
(***************************************************************************)
EXTENDS Integers, Sequences, FiniteSets, TLC

VARIABLES
    scen,               \* the run's configuration: price table, ledgers, strategy repertoire
    schema,             \* the shape of the price table handed to the constructor
    data_lock,          \* Strategy._data_lock per strategy
    strat_data,         \* Strategy._data per strategy: which table object it holds
    error,              \* <<class, message>> of the exception raised last
    pc,                 \* position of StrategyRunner.run in its event loop
    day,                \* index of the current timestamp ts in the calendar
    si,                 \* index of the strategy whose callback is running / is next
    strat_ts,           \* Strategy._ts per strategy (0 = None)
    mask_open,          \* Strategy._mask_open per strategy
    orders,             \* every order object created so far (index = identity)
    queue,              \* StrategyRunner._orders_unprocessed (Orders.deque), identities
    orders_next_ts,     \* the drain's local buffer orders_next_ts
    orders_processed,   \* StrategyRunner._orders_processed
    books,              \* the ledgers: cash, positions, transactions, _history
    presort,            \* history: the queue as it stood before this timestep's sort
    apply_log,          \* history: every call of order.apply by the runner, in call order
    direct_log,         \* history: every call of order.apply by a callback, in call order
    last_dedup          \* history: what the latest remove_duplicate_keys saw and returned

vars == <<scen, schema, data_lock, strat_data, error, pc, day, si, strat_ts, mask_open, orders, queue, orders_next_ts,
          orders_processed, books, presort, apply_log, direct_log, last_dedup>>

-----------------------------------------------------------------------------
(* Bounds of the model *)

\* number of timestamps in the calendar
NumDays == 3
\* number of order objects a run may create (strategy orders and suborders)
MaxOrders == 3

(* Program constants *)

\* Asset.quantity_round_dp default
quantity_round_dp == 2
\* Asset.price_round_dp default
price_round_dp == 2
\* Book.interest_round_dp default
interest_round_dp == 3

-----------------------------------------------------------------------------
(* Arithmetic helpers *)

RECURSIVE Pow10(_)
Pow10(n) == IF n = 0 THEN 1 ELSE 10 * Pow10(n - 1)

QScale == Pow10(quantity_round_dp)
PScale == Pow10(price_round_dp)
CashScale == QScale * PScale

Abs(x) == IF x < 0 THEN 0 - x ELSE x

\* floor of n / d for d > 0, n any sign
FloorDiv(n, d) == IF n >= 0 THEN n \div d ELSE 0 - ((0 - n + d - 1) \div d)

Sign(d) == IF d < 0 THEN 0 - 1 ELSE 1

\* nearest integer to n / d for d > 0, ties to the even neighbour
RoundHalfEvenPositive(n, d) ==
    LET f == FloorDiv(n, d)
        r2 == 2 * (n - f * d)
    IN  IF r2 < d THEN f
        ELSE IF r2 > d THEN f + 1
        ELSE IF f % 2 = 0 THEN f ELSE f + 1

\* Decimal's round(): nearest integer to n / d, ties to the even neighbour (d # 0)
RoundHalfEven(n, d) ==
    RoundHalfEvenPositive(Sign(d) * n, Sign(d) * d)

RECURSIVE SumSeq(_)
SumSeq(s) == IF s = <<>> THEN 0 ELSE Head(s) + SumSeq(Tail(s))

SeqToSet(s) == {s[i] : i \in 1..Len(s)}

\* value of a missing table cell (pandas NaN)
NaN == 0 - 1

-----------------------------------------------------------------------------
(* Asset (asset.py) *)

ADFI_AVAILABLE_AT_CLOSE == 1
ADFI_AVAILABLE_AT_OPEN == 2
ADFI_REQUIRED == 4

Fields == {"High", "Low", "Open", "Close", "Volume"}

\* OHLCAsset.data_fields: each field with its availability flags (a bit set)
data_fields ==
    << <<"High", ADFI_AVAILABLE_AT_CLOSE>>,
       <<"Low", ADFI_AVAILABLE_AT_CLOSE>>,
       <<"Open", ADFI_AVAILABLE_AT_CLOSE + ADFI_AVAILABLE_AT_OPEN>>,
       <<"Close", ADFI_AVAILABLE_AT_CLOSE + ADFI_REQUIRED>>,
       <<"Volume", ADFI_AVAILABLE_AT_CLOSE>> >>

\* fi & field_info for a one-bit field_info
HasFlag(fi, field_info) == (fi \div field_info) % 2 = 1

\* Asset._get_fields
get_fields(field_info) ==
    {data_fields[i][1] : i \in {j \in 1..Len(data_fields) : HasFlag(data_fields[j][2], field_info)}}

\* Asset.fields_available_at_open: the fields declared visible before the close
fields_available_at_open == get_fields(ADFI_AVAILABLE_AT_OPEN)

\* Asset.round_quantity, for the exact value n / d (in units): hundredths
round_quantity(n, d) == RoundHalfEven(n * QScale, d)

\* OHLCAsset.intraday_traded_price of one asset's row: cents
intraday_traded_price(asset_day_data) ==
    IF asset_day_data["Low"] # NaN /\ asset_day_data["High"] # NaN
    THEN RoundHalfEven(asset_day_data["Low"] + asset_day_data["High"], 2)
    ELSE asset_day_data["Close"]

\* OHLCAsset.end_of_day_price
end_of_day_price(asset_day_data) == asset_day_data["Close"]

-----------------------------------------------------------------------------
(* The runs the model explores: price tables, ledgers, strategy repertoires *)

Scenarios == {"priority", "key", "limit_cancel", "limit_open", "limit_fill",
              "single", "basket", "sizing", "books", "interest"}

Calendar == 1..NumDays

\* a table row of an asset that has only a Close column (the other columns are
\* NaN after check_and_fix_data's reindex)
CloseOnly(c) == [f \in Fields |-> IF f = "Close" THEN c ELSE NaN]

\* a full OHLC row
OHLC(o, h, l, c) ==
    [f \in Fields |-> CASE f = "Open" -> o [] f = "High" -> h [] f = "Low" -> l
                        [] f = "Close" -> c [] OTHER -> 100000]

\* closes of the test tables (cents); entries past the tests' three days repeat a
\* quiet day so that a longer calendar has data
Closes(s) ==
    CASE s \in {"priority", "limit_cancel"} -> <<10500, 11500, 11000, 10000, 10000>>
      [] s = "limit_open" -> <<9500, 10000, 10500, 10000, 10000>>
      [] s \in {"limit_fill", "key"} -> <<9500, 10000, 8500, 9500, 10000>>
      [] OTHER -> <<10000, 10000, 10000, 10000, 10000>>

\* closes of the two assets of the sizing runs (cents): 50 and 100, or 47 and 103
SizingCloses(a) ==
    IF a = "ACME" THEN <<5000, 4700, 5000, 4700, 5000>>
    ELSE <<10000, 10300, 10000, 10300, 10000>>

AssetNames(s) ==
    IF s \in {"single", "basket", "sizing"} THEN {"ACME", "BOKO"} ELSE {"ACME"}

\* StrategyRunner.data after _check_data: day -> asset -> field -> value
Data(s) ==
    [d \in Calendar |->
        [a \in AssetNames(s) |->
            IF s \in {"single", "basket"}
            THEN IF a = "ACME"
                 THEN OHLC(10000, 10200 + 200 * d, 9800, 10000 + 100 * d)
                 ELSE OHLC(5000, 5100, 4900, 5000)
            ELSE IF s = "sizing" THEN CloseOnly(SizingCloses(a)[d])
            ELSE CloseOnly(Closes(s)[d])]]

-----------------------------------------------------------------------------
(* Transactions (transaction.py) *)

\* Trade.__post_init__ with the bug of accepting every quantity
TradeRaises_never(quantity) == FALSE

\* Trade.__post_init__ raises ValueError for a zero quantity
TradeRaises(quantity) == quantity = 0

\* Trade: total = -quantity * price
Trade(asset_name, ts, quantity, price, order_label) ==
    [kind |-> "Trade", asset_name |-> asset_name, ts |-> ts, quantity |-> quantity,
     price |-> price, order_label |-> order_label, total |-> 0 - quantity * price]

\* Transaction: the base class, neither a Trade nor a CashTransaction
Transaction(ts, total) ==
    [kind |-> "Transaction", asset_name |-> "", ts |-> ts, quantity |-> 0,
     price |-> 0, order_label |-> "", total |-> total]

\* CashTransaction: a bare cash movement
CashTransaction(ts, total) ==
    [kind |-> "CashTransaction", asset_name |-> "", ts |-> ts, quantity |-> 0,
     price |-> 0, order_label |-> "", total |-> total]

-----------------------------------------------------------------------------
(* Book (book.py) *)

NoMandate == 0 - 1

\* BookMandate.check is abstract; the mandates of the model are position limits:
\* the position after the trade must stay within +/- limit
MandateCheck(limit, current_pos, quantity) == Abs(current_pos + quantity) <= limit

\* itertools.groupby(trades, asset_name): the runs of consecutive equal keys
RECURSIVE GroupBy(_)
GroupBy(trades) ==
    IF trades = <<>> THEN <<>>
    ELSE LET rest == GroupBy(Tail(trades))
         IN  IF rest # <<>> /\ Head(rest)[1].asset_name = Head(trades).asset_name
             THEN <<(<<Head(trades)>> \o Head(rest))>> \o Tail(rest)
             ELSE <<(<<Head(trades)>>)>> \o rest

Quantities(trades) == [i \in 1..Len(trades) |-> trades[i].quantity]

\* Book.test_trades: every group of a mandated asset passes its mandate
test_trades(book, mandates, trades) ==
    LET groups == GroupBy(trades)
    IN  \A i \in 1..Len(groups) :
            LET asset_name == groups[i][1].asset_name
            IN  mandates[asset_name] # NoMandate =>
                    MandateCheck(mandates[asset_name], book.positions[asset_name],
                                 SumSeq(Quantities(groups[i])))

\* add_transactions with the bug of adding quantity * price to cash instead of total
RECURSIVE add_transactions_wrong_sign(_, _)
add_transactions_wrong_sign(book, transactions) ==
    IF transactions = <<>> THEN book
    ELSE LET tran == Head(transactions)
         IN  add_transactions_wrong_sign(
                [book EXCEPT !.positions[tran.asset_name] = @ + tran.quantity,
                             !.cash = @ - tran.total,
                             !.transactions = Append(@, tran)],
                Tail(transactions))

\* add_transactions with the bug of inserting each entry at the front of the list
RECURSIVE add_transactions_prepends(_, _)
add_transactions_prepends(book, transactions) ==
    IF transactions = <<>> THEN book
    ELSE LET tran == Head(transactions)
         IN  add_transactions_prepends(
                [book EXCEPT !.positions[tran.asset_name] =
                                IF tran.kind = "Trade" THEN @ + tran.quantity ELSE @,
                             !.cash = @ + tran.total,
                             !.transactions = <<tran>> \o @],
                Tail(transactions))

\* Book.add_transactions; an entry that is neither a Trade nor a CashTransaction
\* raises ValueError with the entries before it already booked
RECURSIVE add_transactions(_, _)
add_transactions(book, transactions) ==
    IF transactions = <<>> THEN book
    ELSE LET tran == Head(transactions)
         IN  IF tran.kind = "Trade"
             THEN add_transactions(
                    [book EXCEPT !.positions[tran.asset_name] = @ + tran.quantity,
                                 !.cash = @ + tran.total,
                                 !.transactions = Append(@, tran)],
                    Tail(transactions))
             ELSE IF tran.kind = "CashTransaction"
             THEN add_transactions(
                    [book EXCEPT !.cash = @ + tran.total,
                                 !.transactions = Append(@, tran)],
                    Tail(transactions))
             ELSE book

\* Book.add_transactions leaves by ValueError("Unsupport transaction class ...")
add_transactions_raises(transactions) ==
    \E i \in 1..Len(transactions) :
        transactions[i].kind \notin {"Trade", "CashTransaction"}

\* float(x) of a Decimal held in 1e-4 units: the nearest double, which is the
\* value itself exactly when x is a multiple of 1/16 (625e-4)
ToFloat(v) == [val |-> v, exact |-> v % 625 = 0]

\* float * float and float + float of such values (small magnitudes: the only
\* rounding is the one of the operands)
FloatSum(x, y) == [val |-> x.val + y.val, exact |-> x.exact /\ y.exact]

\* sum(Close * float(q) for an, q in positions.items()); Close is a float of the
\* table, q a position in hundredths
RECURSIVE MarkToMarket(_, _, _)
MarkToMarket(positions, day_data, names) ==
    IF names = {} THEN [val |-> 0, exact |-> TRUE]
    ELSE LET an == CHOOSE a \in names : TRUE
         IN  FloatSum([val |-> day_data[an]["Close"] * positions[an],
                       exact |-> ToFloat(positions[an] * PScale).exact],
                      MarkToMarket(positions, day_data, names \ {an}))

\* interest = round(cash * (rate.exp() - 1), interest_round_dp), in 1e-4 units;
\* growth = <<n, d>> stands for the Decimal rate.exp() - 1 = n / d (0 for rate 0)
Interest(cash, growth) ==
    LET unit == CashScale \div Pow10(interest_round_dp)
    IN  RoundHalfEven(cash * growth[1], unit * growth[2]) * unit

\* eod_tasks with the bug of recording the cash as it stood before the interest
eod_tasks_cash_before_interest(book, growth, ts, day_data) ==
    LET interest == Interest(book.cash, growth)
        booked == IF growth[1] # 0 /\ interest # 0
                  THEN add_transactions(book, <<CashTransaction(ts, interest)>>)
                  ELSE book
        cash == ToFloat(book.cash)
        mtm == MarkToMarket(booked.positions, day_data, DOMAIN booked.positions)
    IN  [booked EXCEPT !.history =
            Append(@, [ts |-> ts, cash |-> cash, mtm |-> mtm, total |-> FloatSum(cash, mtm)])]

\* eod_tasks with the bug of booking the interest whenever the rate is not zero,
\* a rounded interest of zero included
eod_tasks_books_zero_interest(book, growth, ts, day_data) ==
    LET interest == Interest(book.cash, growth)
        booked == IF growth[1] # 0
                  THEN add_transactions(book, <<CashTransaction(ts, interest)>>)
                  ELSE book
        cash == ToFloat(booked.cash)
        mtm == MarkToMarket(booked.positions, day_data, DOMAIN booked.positions)
    IN  [booked EXCEPT !.history =
            Append(@, [ts |-> ts, cash |-> cash, mtm |-> mtm, total |-> FloatSum(cash, mtm)])]

\* Book.eod_tasks
eod_tasks(book, growth, ts, day_data) ==
    LET interest == Interest(book.cash, growth)
        booked == IF growth[1] # 0 /\ interest # 0
                  THEN add_transactions(book, <<CashTransaction(ts, interest)>>)
                  ELSE book
        cash == ToFloat(booked.cash)
        mtm == MarkToMarket(booked.positions, day_data, DOMAIN booked.positions)
    IN  [booked EXCEPT !.history =
            Append(@, [ts |-> ts, cash |-> cash, mtm |-> mtm, total |-> FloatSum(cash, mtm)])]

-----------------------------------------------------------------------------
(* Orders (order.py) *)

Terminal == {"COMPLETE", "CANCELLED", "MANDATE_FAILED", "REPLACED"}
OrderStatus == {"OPEN"} \cup Terminal

\* Python's None for key, book, label and for the hook's "go ahead"
None == "None"

\* what one call of order.apply did: raised (an exception left apply), the status
\* the order has afterwards, the ledger afterwards, the trade batch built, the
\* hook's return value ("not_called" when apply has no hook call), whether the
\* batch was handed to the ledger's test, and whether post_complete was called
Outcome(raised, status, book, trades, hook, tested, posted) ==
    [raised |-> raised, status |-> status, book |-> book, trades |-> trades,
     hook |-> hook, tested |-> tested, posted |-> posted]

\* a Book object, as distinct from its name (an order's book is a name, a Book
\* or None)
BookInstance(b) ==
    CASE b = "Main" -> "<Book Main>"
      [] b = "MSFT_BOOK" -> "<Book MSFT_BOOK>"
      [] b = "GOOG_BOOK" -> "<Book GOOG_BOOK>"

\* the check with the bug of testing only that a book is set
IsBook_accepts_names(book) == book # None

\* self.book and isinstance(self.book, Book)
IsBook(book) == book \in {BookInstance(b) : b \in {"Main", "MSFT_BOOK", "GOOG_BOOK"}}

\* apply left by RuntimeError("Cannot apply order without book instance"): nothing
\* was computed, asked or built
NoBook(o, book) == Outcome(TRUE, o.status, book, <<>>, "not_called", FALSE, FALSE)

\* pre_execute_check: OrderBase's default, the overrides of the tests' subclasses,
\* and an override that returns OrderStatus.COMPLETE; trade_price in cents
pre_execute_check(hook, ts, trade_price) ==
    CASE hook = "limit" ->
            IF trade_price > 110 * PScale THEN "CANCELLED"
            ELSE IF trade_price < 90 * PScale THEN None
            ELSE "OPEN"
      [] hook = "stop_loss" -> IF trade_price < 90 * PScale THEN None ELSE "OPEN"
      [] hook = "above200" -> IF trade_price > 200 * PScale THEN None ELSE "OPEN"
      [] hook = "complete" -> "COMPLETE"
      [] OTHER -> None

\* Order._calc_quantity_price with the bug of sizing a BOOK_PERCENT order from the
\* cash the ledger held when the timestep began (before this timestep's bookings)
calc_quantity_price_cash_at_start(o, book, day_data) ==
    LET trade_price == intraday_traded_price(day_data[o.asset_names[1]])
        closed == IF book.history = <<>> THEN 0 ELSE book.history[Len(book.history)].ts
        booked_now == SumSeq([i \in 1..Len(book.transactions) |->
                                IF book.transactions[i].ts > closed
                                THEN book.transactions[i].total ELSE 0])
        quantity ==
            CASE o.size_type = "QUANTITY" -> round_quantity(o.size_n, o.size_d)
              [] o.size_type = "NOTIONAL" ->
                    round_quantity(o.size_n * PScale, o.size_d * trade_price)
              [] o.size_type = "BOOK_PERCENT" ->
                    RoundHalfEven((book.cash - booked_now) * o.size_n,
                                  100 * o.size_d * trade_price)
    IN  <<quantity, trade_price>>

\* Order._calc_quantity_price: <<rounded quantity, trade price>>
calc_quantity_price(o, book, day_data) ==
    LET trade_price == intraday_traded_price(day_data[o.asset_names[1]])
        quantity ==
            CASE o.size_type = "QUANTITY" -> round_quantity(o.size_n, o.size_d)
              [] o.size_type = "NOTIONAL" ->
                    round_quantity(o.size_n * PScale, o.size_d * trade_price)
              [] o.size_type = "BOOK_PERCENT" ->
                    \* cash * size / 100 / price, cash in 1e-4 units
                    RoundHalfEven(book.cash * o.size_n, 100 * o.size_d * trade_price)
    IN  <<quantity, trade_price>>

\* sum(w * p for w, p in zip(weights, trade_prices))
RECURSIVE WeightedSum(_, _)
WeightedSum(ws, ps) ==
    IF ws = <<>> \/ ps = <<>> THEN 0
    ELSE Head(ws) * Head(ps) + WeightedSum(Tail(ws), Tail(ps))

\* the legs zip(asset_names, weights) yields
NLegs(o) == IF Len(o.asset_names) < Len(o.weights) THEN Len(o.asset_names) ELSE Len(o.weights)

BasketPrices(o, day_data) ==
    [i \in 1..Len(o.asset_names) |-> intraday_traded_price(day_data[o.asset_names[i]])]

\* BasketOrder._calc_quantity_price raises ZeroDivisionError when the weighted
\* price of a NOTIONAL basket is zero
BasketCalcRaises(o, day_data) ==
    o.size_type = "NOTIONAL" /\ WeightedSum(o.weights, BasketPrices(o, day_data)) = 0

\* BasketOrder._calc_quantity_price with the bug of scaling a NOTIONAL basket by
\* the plain sum of the prices instead of the weighted sum
basket_calc_quantity_price_unweighted(o, book, day_data) ==
    LET tps == BasketPrices(o, day_data)
        book_mtm == SumSeq([i \in 1..Len(o.asset_names) |->
                                book.positions[o.asset_names[i]] * tps[i]])
        book_value == book.cash + book_mtm
    IN  [i \in 1..NLegs(o) |->
            <<CASE o.size_type = "QUANTITY" ->
                     round_quantity(o.size_n * o.weights[i], o.size_d)
                [] o.size_type = "NOTIONAL" ->
                     round_quantity(o.size_n * o.weights[i] * PScale,
                                    o.size_d * SumSeq(tps))
                [] o.size_type = "BOOK_PERCENT" ->
                     RoundHalfEven(book_value * o.weights[i], 100 * tps[i]),
              tps[i]>>]

\* BasketOrder._calc_quantity_price with the bug of scaling a BOOK_PERCENT basket
\* by the order's size
basket_calc_quantity_price_scaled_by_size(o, book, day_data) ==
    LET tps == BasketPrices(o, day_data)
        book_mtm == SumSeq([i \in 1..Len(o.asset_names) |->
                                book.positions[o.asset_names[i]] * tps[i]])
        book_value == book.cash + book_mtm
    IN  [i \in 1..NLegs(o) |->
            <<CASE o.size_type = "QUANTITY" ->
                     round_quantity(o.size_n * o.weights[i], o.size_d)
                [] o.size_type = "NOTIONAL" ->
                     round_quantity(o.size_n * o.weights[i] * PScale,
                                    o.size_d * WeightedSum(o.weights, tps))
                [] o.size_type = "BOOK_PERCENT" ->
                     RoundHalfEven(book_value * o.size_n * o.weights[i],
                                   100 * o.size_d * tps[i]),
              tps[i]>>]

\* BasketOrder._calc_quantity_price: one <<rounded quantity, trade price>> per leg
basket_calc_quantity_price(o, book, day_data) ==
    LET tps == BasketPrices(o, day_data)
        book_mtm == SumSeq([i \in 1..Len(o.asset_names) |->
                                book.positions[o.asset_names[i]] * tps[i]])
        book_value == book.cash + book_mtm
    IN  [i \in 1..NLegs(o) |->
            <<CASE o.size_type = "QUANTITY" ->
                     round_quantity(o.size_n * o.weights[i], o.size_d)
                [] o.size_type = "NOTIONAL" ->
                     round_quantity(o.size_n * o.weights[i] * PScale,
                                    o.size_d * WeightedSum(o.weights, tps))
                [] o.size_type = "BOOK_PERCENT" ->
                     RoundHalfEven(book_value * o.weights[i], 100 * tps[i]),
              tps[i]>>]

\* _book_trades with the bug of raising when the mandate test rejects the batch
book_trades_raises_on_failure(o, book, mandates, trades, hook) ==
    IF test_trades(book, mandates, trades)
    THEN Outcome(FALSE, "COMPLETE", add_transactions(book, trades), trades, hook, TRUE, TRUE)
    ELSE Outcome(TRUE, o.status, book, trades, hook, TRUE, FALSE)

\* _book_trades with the bug of booking the batch before the mandate test is consulted
book_trades_books_first(o, book, mandates, trades, hook) ==
    IF test_trades(book, mandates, trades)
    THEN Outcome(FALSE, "COMPLETE", add_transactions(book, trades), trades, hook, TRUE, TRUE)
    ELSE Outcome(FALSE, "MANDATE_FAILED", add_transactions(book, trades), trades, hook,
                 TRUE, FALSE)

\* OrderBase._book_trades
book_trades(o, book, mandates, trades, hook) ==
    IF test_trades(book, mandates, trades)
    THEN Outcome(FALSE, "COMPLETE", add_transactions(book, trades), trades, hook, TRUE, TRUE)
    ELSE Outcome(FALSE, "MANDATE_FAILED", book, trades, hook, TRUE, FALSE)

\* Order.apply with the bug of stopping only for a terminal hook result, so that
\* an order whose hook returns OPEN proceeds to book
order_apply_ignores_open(o, book, mandates, ts, day_data) ==
    IF ~IsBook(o.book) THEN NoBook(o, book)
    ELSE
    LET qp == calc_quantity_price(o, book, day_data)
        new_status == pre_execute_check(o.hook, ts, qp[2])
    IN  IF new_status \in Terminal
        THEN Outcome(FALSE, new_status, book, <<>>, new_status, FALSE, FALSE)
        ELSE IF TradeRaises(qp[1])
        THEN Outcome(TRUE, o.status, book, <<>>, new_status, FALSE, FALSE)
        ELSE book_trades(o, book, mandates,
                         <<Trade(o.asset_names[1], ts, qp[1], qp[2], o.label)>>, new_status)

\* Order.apply
order_apply(o, book, mandates, ts, day_data) ==
    IF ~IsBook(o.book) THEN NoBook(o, book)
    ELSE
    LET qp == calc_quantity_price(o, book, day_data)
        new_status == pre_execute_check(o.hook, ts, qp[2])
    IN  IF new_status # None
        THEN Outcome(FALSE, new_status, book, <<>>, new_status, FALSE, FALSE)
        ELSE IF TradeRaises(qp[1])
        THEN Outcome(TRUE, o.status, book, <<>>, new_status, FALSE, FALSE)
        ELSE book_trades(o, book, mandates,
                         <<Trade(o.asset_names[1], ts, qp[1], qp[2], o.label)>>, new_status)

\* the trades of one asset with the bug of opening the target before closing
CloseAndOpen_opens_first(asset_name, ts, current_position, trade_quantity, trade_price, label) ==
    (IF trade_quantity # 0
     THEN <<Trade(asset_name, ts, trade_quantity, trade_price, label)>> ELSE <<>>)
    \o (IF current_position # 0
        THEN <<Trade(asset_name, ts, 0 - current_position, trade_price, label)>> ELSE <<>>)

\* the trades of one asset with the bug of leaving the existing position open
CloseAndOpen_opens_only(asset_name, ts, current_position, trade_quantity, trade_price, label) ==
    IF trade_quantity # 0
    THEN <<Trade(asset_name, ts, trade_quantity, trade_price, label)>> ELSE <<>>

\* the closing and opening trades of one asset of a positional order
CloseAndOpen(asset_name, ts, current_position, trade_quantity, trade_price, label) ==
    (IF current_position # 0
     THEN <<Trade(asset_name, ts, 0 - current_position, trade_price, label)>> ELSE <<>>)
    \o (IF trade_quantity # 0
        THEN <<Trade(asset_name, ts, trade_quantity, trade_price, label)>> ELSE <<>>)

\* PositionalOrder.apply with the bug of ignoring check_type: it always closes
\* the position and opens the target
positional_apply_always_trades(o, book, mandates, ts, day_data) ==
    IF ~IsBook(o.book) THEN NoBook(o, book)
    ELSE
    LET qp == calc_quantity_price(o, book, day_data)
        new_status == pre_execute_check(o.hook, ts, qp[2])
        current_position == book.positions[o.asset_names[1]]
        trades == CloseAndOpen(o.asset_names[1], ts, current_position, qp[1], qp[2], o.label)
    IN  IF new_status # None
        THEN Outcome(FALSE, new_status, book, <<>>, new_status, FALSE, FALSE)
        ELSE book_trades(o, book, mandates, trades, new_status)

\* PositionalOrder.apply with the bug of a ZERO_POS check that asks for a trade
\* when the position is not zero
positional_apply_zero_pos_inverted(o, book, mandates, ts, day_data) ==
    IF ~IsBook(o.book) THEN NoBook(o, book)
    ELSE
    LET qp == calc_quantity_price(o, book, day_data)
        new_status == pre_execute_check(o.hook, ts, qp[2])
        current_position == book.positions[o.asset_names[1]]
        needs_trades == IF o.check_type = "POS_TQ_DIFFER"
                        THEN current_position # qp[1]
                        ELSE current_position # 0
        trades == IF needs_trades
                  THEN CloseAndOpen(o.asset_names[1], ts, current_position, qp[1], qp[2], o.label)
                  ELSE <<>>
    IN  IF new_status # None
        THEN Outcome(FALSE, new_status, book, <<>>, new_status, FALSE, FALSE)
        ELSE book_trades(o, book, mandates, trades, new_status)

\* PositionalOrder.apply
positional_apply(o, book, mandates, ts, day_data) ==
    IF ~IsBook(o.book) THEN NoBook(o, book)
    ELSE
    LET qp == calc_quantity_price(o, book, day_data)
        new_status == pre_execute_check(o.hook, ts, qp[2])
        current_position == book.positions[o.asset_names[1]]
        needs_trades == IF o.check_type = "POS_TQ_DIFFER"
                        THEN current_position # qp[1]
                        ELSE current_position = 0
        trades == IF needs_trades
                  THEN CloseAndOpen(o.asset_names[1], ts, current_position, qp[1], qp[2], o.label)
                  ELSE <<>>
    IN  IF new_status # None
        THEN Outcome(FALSE, new_status, book, <<>>, new_status, FALSE, FALSE)
        ELSE book_trades(o, book, mandates, trades, new_status)

\* BasketOrder.apply (it calls no pre-execution hook)
basket_apply(o, book, mandates, ts, day_data) ==
    IF ~IsBook(o.book) THEN NoBook(o, book)
    ELSE
    IF BasketCalcRaises(o, day_data)
    THEN Outcome(TRUE, o.status, book, <<>>, "not_called", FALSE, FALSE)
    ELSE LET qps == basket_calc_quantity_price(o, book, day_data)
             trades == [i \in 1..Len(qps) |->
                            Trade(o.asset_names[i], ts, qps[i][1], qps[i][2], o.label)]
         IN  IF \E i \in 1..Len(qps) : TradeRaises(qps[i][1])
             THEN Outcome(TRUE, o.status, book, <<>>, "not_called", FALSE, FALSE)
             ELSE book_trades(o, book, mandates, trades, "not_called")

RECURSIVE Concat(_)
Concat(ss) == IF ss = <<>> THEN <<>> ELSE Head(ss) \o Concat(Tail(ss))

\* PositionalBasketOrder.apply (it calls no pre-execution hook)
positional_basket_apply(o, book, mandates, ts, day_data) ==
    IF ~IsBook(o.book) THEN NoBook(o, book)
    ELSE
    IF BasketCalcRaises(o, day_data)
    THEN Outcome(TRUE, o.status, book, <<>>, "not_called", FALSE, FALSE)
    ELSE LET qps == basket_calc_quantity_price(o, book, day_data)
             current_positions == [i \in 1..Len(o.asset_names) |->
                                        book.positions[o.asset_names[i]]]
             n == IF Len(qps) < Len(current_positions) THEN Len(qps) ELSE Len(current_positions)
             needs_trades ==
                IF o.check_type = "POS_TQ_DIFFER"
                THEN \E i \in 1..n : current_positions[i] # qps[i][1]
                ELSE \E i \in 1..Len(current_positions) : current_positions[i] = 0
             trades == IF needs_trades
                       THEN Concat([i \in 1..n |->
                                CloseAndOpen(o.asset_names[i], ts, current_positions[i],
                                             qps[i][1], qps[i][2], o.label)])
                       ELSE <<>>
         IN  book_trades(o, book, mandates, trades, "not_called")

\* the <<quantity, price>> pairs an order's _calc_quantity_price yields
Sizing(o, book, day_data) ==
    IF o.variant \in {"Order", "PositionalOrder"}
    THEN <<calc_quantity_price(o, book, day_data)>>
    ELSE IF BasketCalcRaises(o, day_data) THEN <<>>
    ELSE basket_calc_quantity_price(o, book, day_data)

\* order.apply, dispatched on the order's class
apply(o, book, mandates, ts, day_data) ==
    CASE o.variant = "Order" -> order_apply(o, book, mandates, ts, day_data)
      [] o.variant = "PositionalOrder" -> positional_apply(o, book, mandates, ts, day_data)
      [] o.variant = "BasketOrder" -> basket_apply(o, book, mandates, ts, day_data)
      [] o.variant = "PositionalBasketOrder" ->
            positional_basket_apply(o, book, mandates, ts, day_data)

-----------------------------------------------------------------------------
(* Orders queue (strategy.py, class Orders); ords: the order objects by identity *)

\* InsertByPriority with the bug of passing entries of equal priority, which
\* reverses ties
RECURSIVE InsertByPriority_unstable(_, _, _)
InsertByPriority_unstable(ords, x, sorted) ==
    IF sorted = <<>> THEN <<x>>
    ELSE IF ords[Head(sorted)].priority >= ords[x].priority
    THEN <<Head(sorted)>> \o InsertByPriority_unstable(ords, x, Tail(sorted))
    ELSE <<x>> \o sorted

\* insert x into a list sorted by descending priority, before the first entry
\* whose priority is not higher than x's
RECURSIVE InsertByPriority(_, _, _)
InsertByPriority(ords, x, sorted) ==
    IF sorted = <<>> THEN <<x>>
    ELSE IF ords[Head(sorted)].priority > ords[x].priority
    THEN <<Head(sorted)>> \o InsertByPriority(ords, x, Tail(sorted))
    ELSE <<x>> \o sorted

\* Orders.sort_by_priority: sorted(deque, key=priority, reverse=True), a stable sort
RECURSIVE sort_by_priority(_, _)
sort_by_priority(ords, deque) ==
    IF deque = <<>> THEN <<>>
    ELSE InsertByPriority(ords, Head(deque), sort_by_priority(ords, Tail(deque)))

\* the Counter with the bug of counting the orders without a key under None
KeyCounter_counts_none(ords, deque) ==
    [k \in {ords[deque[i]].key : i \in 1..Len(deque)} |->
        Cardinality({i \in 1..Len(deque) : ords[deque[i]].key = k})]

\* Counter(o.key for o in deque if o.key is not None)
KeyCounter(ords, deque) ==
    [k \in {ords[deque[i]].key : i \in 1..Len(deque)} \ {None} |->
        Cardinality({i \in 1..Len(deque) : ords[deque[i]].key = k})]

\* the popleft loop of remove_duplicate_keys
RECURSIVE DedupLoop(_, _, _)
DedupLoop(ords, deque, cntr) ==
    IF deque = <<>> THEN [kept |-> <<>>, removed |-> <<>>]
    ELSE LET o == Head(deque)
             k == ords[o].key
         IN  IF k \in DOMAIN cntr /\ cntr[k] > 1
             THEN LET r == DedupLoop(ords, Tail(deque), [cntr EXCEPT ![k] = @ - 1])
                  IN  [kept |-> r.kept, removed |-> <<o>> \o r.removed]
             ELSE LET r == DedupLoop(ords, Tail(deque), cntr)
                  IN  [kept |-> <<o>> \o r.kept, removed |-> r.removed]

\* Orders.remove_duplicate_keys: the deque afterwards and the removed orders
remove_duplicate_keys(ords, deque) ==
    LET cntr == KeyCounter(ords, deque)
    IN  IF \E k \in DOMAIN cntr : cntr[k] > 1
        THEN DedupLoop(ords, deque, cntr)
        ELSE [kept |-> deque, removed |-> <<>>]

-----------------------------------------------------------------------------
(* Strategy data view (strategy.py) *)

\* Strategy._get_col_indexer: TRUE for the columns to mask at open
col_indexer(s, data_label, field) ==
    ~(<<data_label, field>> \in
        UNION {{<<a, f>> : f \in fields_available_at_open} : a \in AssetNames(s)})

\* Strategy.data with the bug of a row indexer that selects every row of the window
StrategyData_masks_window(s, ts, mask) ==
    IF ts = 0 THEN Data(s)
    ELSE [d \in 1..ts |->
            [a \in AssetNames(s) |->
                [f \in Fields |->
                    IF mask /\ col_indexer(s, a, f) THEN NaN
                    ELSE Data(s)[d][a][f]]]]

\* Strategy.data with the bug of not cutting the table at ts
StrategyData_whole_table(s, ts, mask) ==
    [d \in Calendar |->
        [a \in AssetNames(s) |->
            [f \in Fields |->
                IF mask /\ d = ts /\ col_indexer(s, a, f) THEN NaN
                ELSE Data(s)[d][a][f]]]]

\* Strategy.data: the window up to ts, the last row masked while _mask_open
StrategyData(s, ts, mask) ==
    IF ts = 0 THEN Data(s)
    ELSE [d \in 1..ts |->
            [a \in AssetNames(s) |->
                [f \in Fields |->
                    IF mask /\ d = ts /\ col_indexer(s, a, f) THEN NaN
                    ELSE Data(s)[d][a][f]]]]

-----------------------------------------------------------------------------
(* Configuration of the runs *)

\* the books argument of StrategyRunner(...): the ledgers the caller supplies
SuppliedBooks(s) ==
    CASE s = "books" -> <<"MSFT_BOOK", "GOOG_BOOK">>
      [] s \in {"single", "basket", "interest"} -> <<"Main">>
      [] OTHER -> <<>>

\* StrategyRunner.books after construction, in list order: the supplied ledgers,
\* or the default ledger 'Main' when none was supplied
BookList(s) == IF SuppliedBooks(s) # <<>> THEN SuppliedBooks(s) ELSE <<"Main">>

BookNames(s) == SeqToSet(BookList(s))

\* Book.cash at construction, in 1e-4 units
InitialCash(s, b) ==
    IF s \in {"single", "basket", "books", "interest"} THEN 1000 * CashScale ELSE 0

\* the mandates argument of StrategyRunner(...): position limit per asset
\* (hundredths) or NoMandate
RunnerMandates(s) ==
    [a \in AssetNames(s) |->
        CASE s = "key" /\ a = "ACME" -> QScale
          [] s = "interest" /\ a = "ACME" -> 2 * QScale
          [] OTHER -> NoMandate]

\* the mandates of a ledger the caller supplies, Book(name=..., mandates=...)
SuppliedMandates(s, b) ==
    [a \in AssetNames(s) |->
        IF s \in {"single", "basket"} /\ a = "ACME" THEN 2 * QScale ELSE NoMandate]

\* Book.mandates: the runner's mandates on the default ledger 'Main' it creates,
\* the ledger's own on a supplied ledger
Mandates(s, b) ==
    IF SuppliedBooks(s) = <<>> THEN RunnerMandates(s) ELSE SuppliedMandates(s, b)

\* Book.rate, given as rate.exp() - 1 = n / d: rate 0, or the Decimal
\* rate = Decimal("1.01").ln(), for which rate.exp() - 1 == Decimal("0.01")
Growth(s, b) == IF s = "interest" THEN <<1, 100>> ELSE <<0, 1>>

\* len(strat_classes)
NumStrats(s) == IF s = "limit_open" THEN 2 ELSE 1

\* an order as a strategy constructs it: Order(asset_name="ACME", size=1)
BaseOrder ==
    [variant |-> "Order", asset_names |-> <<"ACME">>, weights |-> <<>>,
     size_n |-> 1, size_d |-> 1, size_type |-> "QUANTITY",
     check_type |-> "POS_TQ_DIFFER", priority |-> 0, key |-> None, book |-> None,
     hook |-> "default", post |-> "default", presub |-> FALSE, child_hook |-> "default",
     label |-> None]

BaseBasket ==
    [BaseOrder EXCEPT !.variant = "BasketOrder", !.asset_names = <<"ACME", "BOKO">>,
                      !.weights = <<1, 2>>]

\* the orders the strategies of a scenario may construct
Catalogue(s) ==
    CASE s = "priority" ->
            {[BaseOrder EXCEPT !.priority = p] : p \in {1, 2, 3}}
            \cup {[BaseOrder EXCEPT !.priority = p, !.hook = "above200"] : p \in {1, 2}}
      [] s = "key" ->
            {[BaseOrder EXCEPT !.key = "my_key", !.hook = "above200", !.priority = p] :
                p \in {0, 1}}
            \cup {[BaseOrder EXCEPT !.key = "my_key", !.hook = "stop_loss"],
                  [BaseOrder EXCEPT !.hook = "above200"]}
      [] s \in {"limit_cancel", "limit_open", "limit_fill"} ->
            {[BaseOrder EXCEPT !.hook = "limit"],
             [BaseOrder EXCEPT !.post = "stop_losses"],
             [BaseOrder EXCEPT !.hook = "limit", !.presub = TRUE]}
            \cup (IF s = "limit_cancel" THEN {[BaseOrder EXCEPT !.hook = "complete"]} ELSE {})
            \cup (IF s = "limit_fill"
                  THEN {[BaseOrder EXCEPT !.hook = "limit", !.presub = TRUE,
                                          !.child_hook = "limit"]}
                  ELSE {})
      [] s = "single" ->
            {[BaseOrder EXCEPT !.size_n = n] : n \in {1, 3}}
            \cup {[BaseOrder EXCEPT !.size_d = 200]}
            \cup {[BaseOrder EXCEPT !.variant = "PositionalOrder", !.size_n = n] :
                    n \in {0, 2, 3}}
            \cup {[BaseOrder EXCEPT !.variant = "PositionalOrder", !.size_n = 2,
                                    !.check_type = "ZERO_POS"]}
            \cup {[BaseOrder EXCEPT !.variant = "PositionalOrder", !.size_n = 3,
                                    !.check_type = "ZERO_POS"],
                  [BaseOrder EXCEPT !.variant = "PositionalOrder", !.size_n = 2,
                                    !.check_type = "ZERO_POS", !.hook = "above200"]}
      [] s = "basket" ->
            {[BaseBasket EXCEPT !.size_n = n] : n \in {1, 3}}
            \cup {[BaseBasket EXCEPT !.variant = "PositionalBasketOrder", !.size_n = n] :
                    n \in {1, 2, 3}}
            \cup {[BaseBasket EXCEPT !.variant = "PositionalBasketOrder",
                                     !.weights = <<0, 0>>]}
            \cup {[BaseBasket EXCEPT !.hook = "above200"]}
            \cup {[BaseBasket EXCEPT !.size_type = "BOOK_PERCENT", !.size_n = n] :
                    n \in {1, 50}}
            \cup {[BaseBasket EXCEPT !.variant = "PositionalBasketOrder",
                                     !.weights = <<1, 4>>]}
            \cup {[BaseBasket EXCEPT !.asset_names = <<"ACME", "BOKO", "ACME">>,
                                     !.weights = <<1, 2, 1>>, !.size_n = 2]}
      [] s = "books" ->
            {[BaseOrder EXCEPT !.book = b] :
                b \in {None, "GOOG_BOOK", "NO_SUCH_BOOK", BookInstance("GOOG_BOOK")}}
      [] s = "interest" ->
            {BaseOrder, [BaseOrder EXCEPT !.size_n = 0 - 3], [BaseOrder EXCEPT !.size_n = 10]}
            \cup {[BaseOrder EXCEPT !.variant = v, !.size_type = "BOOK_PERCENT",
                                    !.size_n = 10] : v \in {"Order", "PositionalOrder"}}
      [] s = "sizing" ->
            {[BaseBasket EXCEPT !.size_type = "NOTIONAL", !.size_n = n] : n \in {100, 300}}
            \cup {[BaseBasket EXCEPT !.size_type = "NOTIONAL", !.size_n = 300, !.weights = w] :
                    w \in {<<1, 0>>, <<2, 0 - 1>>}}
            \cup {[BaseBasket EXCEPT !.size_type = "BOOK_PERCENT"],
                  [BaseOrder EXCEPT !.size_type = "BOOK_PERCENT", !.size_n = 10],
                  [BaseOrder EXCEPT !.size_n = 0, !.hook = "above200"]}

\* the child an order constructed with suborders=[...] carries: a market order,
\* plain or with the hook the template names (child_hook)
PresetChild == [BaseOrder EXCEPT !.label = "child"]

\* OrderWithStopLosses.post_complete: one StopLossOrder per booked trade
StopLossOrder(t) ==
    [BaseOrder EXCEPT !.asset_names = <<t.asset_name>>, !.size_n = 0 - t.quantity,
                      !.size_d = QScale, !.hook = "stop_loss", !.label = "my_stop"]

\* an order object: the constructed fields, its mutable status and suborders, and
\* history fields: born (when it was constructed), parent (0: by a strategy),
\* posted (calls of post_complete so far)
NewOrder(tpl, born, parent, suborders) ==
    [variant |-> tpl.variant, asset_names |-> tpl.asset_names, weights |-> tpl.weights,
     size_n |-> tpl.size_n, size_d |-> tpl.size_d, size_type |-> tpl.size_type,
     check_type |-> tpl.check_type, priority |-> tpl.priority, key |-> tpl.key,
     book |-> tpl.book, hook |-> tpl.hook, post |-> tpl.post, label |-> tpl.label,
     status |-> "OPEN", suborders |-> suborders,
     born |-> born, parent |-> parent, posted |-> 0]

\* the run's clock for history fields: three phases per timestamp
Tick(d, phase) == 3 * d + (CASE phase = "open" -> 0 [] phase = "drain" -> 1 [] OTHER -> 2)

\* order objects a template brings into being when constructed
Cost(tpl) == 1 + (IF tpl.presub THEN 1 ELSE 0)

\* order objects that orders already constructed may still create on completion
Reserved(ords) ==
    Cardinality({i \in 1..Len(ords) : ords[i].post = "stop_losses" /\ ords[i].posted = 0
                                       /\ ords[i].status = "OPEN"})

-----------------------------------------------------------------------------
(* StrategyRunner.run (strategyrunner.py) *)

\* the ways the price table handed to the constructor can be malformed ("none":
\* well formed)
Schemas ==
    {"none", "index_not_datetime", "index_decreasing", "index_duplicate", "columns_flat",
     "columns_three_levels", "asset_without_columns", "close_missing"}

\* the DataFrame handed to StrategyRunner(data=...): the kind and the values of its
\* index, the number of column levels, and the (asset label, field) columns
InputTable(s, k) ==
    [index_type |-> IF k = "index_not_datetime" THEN "RangeIndex" ELSE "DatetimeIndex",
     index |-> CASE k = "index_decreasing" -> <<1, 3, 2>>
                 [] k = "index_duplicate" -> <<1, 2, 2>>
                 [] OTHER -> [d \in Calendar |-> d],
     nlevels |-> CASE k = "columns_flat" -> 1
                   [] k = "columns_three_levels" -> 3
                   [] OTHER -> 2,
     columns |-> {<<a, f>> \in AssetNames(s) \X Fields :
                    /\ Data(s)[1][a][f] # NaN
                    /\ ~(k = "asset_without_columns" /\ a = "ACME")
                    /\ ~(k = "close_missing" /\ a = "ACME" /\ f = "Close")}]

\* Asset.check_and_fix_data accepts the asset's columns: every required field is there
check_and_fix_data_ok(df, a) ==
    \A f \in get_fields(ADFI_REQUIRED) : <<a, f>> \in df.columns

\* _check_data(df, asset_map): the message of the ValueError raised, or None
check_data(df, assets) ==
    CASE df.index_type # "DatetimeIndex" -> "data index must be a datetimeindex"
      [] OTHER ->
    CASE \E i \in 1..Len(df.index) - 1 : df.index[i] > df.index[i + 1] ->
            "data needs to have increasing index"
      [] OTHER ->
    CASE \E i, j \in 1..Len(df.index) : i # j /\ df.index[i] = df.index[j] ->
            "data index must be unique"
      [] OTHER ->
    CASE df.nlevels = 1 -> "data columns must be multindex asset/field"
      [] OTHER ->
    CASE df.nlevels # 2 -> "data columns multiindex must have 2 levels"
      [] OTHER ->
    CASE assets \ {c[1] : c \in df.columns} # {} ->
            "some assets are missing corresponding data"
      [] OTHER ->
    CASE \E a \in assets : ~check_and_fix_data_ok(df, a) ->
            "data columns index requires fields"
      [] OTHER -> None

\* Book(name=..., cash=...) as constructed
NewBook(s, b) ==
    [cash |-> InitialCash(s, b),
     positions |-> [a \in AssetNames(s) |-> 0],
     transactions |-> <<>>,
     history |-> <<>>]

\* no exception has been raised: <<class, message>> of none
NoError == <<None, None>>

\* the fields of StrategyRunner(...) before __post_init__ has run
Init ==
    /\ scen \in Scenarios
    /\ schema \in Schemas
    /\ data_lock = [i \in 1..NumStrats(scen) |-> TRUE]
    /\ strat_data = [i \in 1..NumStrats(scen) |-> "unset"]
    /\ error = NoError
    /\ pc = "construct"
    /\ day = 1
    /\ si = 1
    /\ strat_ts = [i \in 1..NumStrats(scen) |-> 0]
    /\ mask_open = [i \in 1..NumStrats(scen) |-> FALSE]
    /\ orders = <<>>
    /\ queue = <<>>
    /\ orders_next_ts = <<>>
    /\ orders_processed = <<>>
    /\ books = [b \in SeqToSet(SuppliedBooks(scen)) |-> NewBook(scen, b)]
    /\ presort = <<>>
    /\ apply_log = <<>>
    /\ direct_log = <<>>
    /\ last_dedup = [day |-> 0, before |-> <<>>, removed |-> <<>>]

\* __post_init__ with the bug of setting up the ledgers before the table is checked
Construct_ledgers_first ==
    /\ pc = "construct"
    /\ books' = IF SuppliedBooks(scen) = <<>>
                THEN [b \in {"Main"} |-> NewBook(scen, b)]
                ELSE books
    /\ LET err == check_data(InputTable(scen, schema), AssetNames(scen))
       IN  IF err # None
           THEN error' = <<"ValueError", err>> /\ pc' = "raised"
           ELSE pc' = "enter_init" /\ UNCHANGED error
    /\ UNCHANGED <<scen, schema, direct_log, data_lock, strat_data, day, si, strat_ts, mask_open, orders,
                   queue, orders_next_ts, orders_processed, presort, apply_log, last_dedup>>

\* StrategyRunner.__post_init__: check the table, then create the default ledger
\* when no ledger was supplied
Construct ==
    /\ pc = "construct"
    /\ LET err == check_data(InputTable(scen, schema), AssetNames(scen))
       IN  IF err # None
           THEN /\ error' = <<"ValueError", err>>
                /\ pc' = "raised"
                /\ UNCHANGED books
           ELSE /\ books' = IF SuppliedBooks(scen) = <<>>
                            THEN [b \in {"Main"} |-> NewBook(scen, b)]
                            ELSE books
                /\ pc' = "enter_init"
                /\ UNCHANGED error
    /\ UNCHANGED <<scen, schema, direct_log, data_lock, strat_data, day, si, strat_ts, mask_open, orders,
                   queue, orders_next_ts, orders_processed, presort, apply_log, last_dedup>>

\* run(), set-up loop: strat._data_lock = False; strat.data = deepcopy(self.data);
\* then strat.init() is entered
EnterInit ==
    /\ pc = "enter_init"
    /\ data_lock' = [data_lock EXCEPT ![si] = FALSE]
    /\ strat_data' = [strat_data EXCEPT ![si] = "runner_copy"]
    /\ pc' = "init"
    /\ UNCHANGED <<scen, schema, direct_log, error, day, si, strat_ts, mask_open, orders, queue,
                   orders_next_ts, orders_processed, books, presort, apply_log, last_dedup>>

\* strat.init() returns: strat._data_lock = True; next strategy, or on to the event loop
InitReturn ==
    /\ pc = "init"
    /\ data_lock' = [data_lock EXCEPT ![si] = TRUE]
    /\ IF si < NumStrats(scen)
       THEN si' = si + 1 /\ pc' = "enter_init"
       ELSE si' = 1 /\ pc' = "enter_open"
    /\ UNCHANGED <<scen, schema, direct_log, strat_data, error, day, strat_ts, mask_open, orders, queue,
                   orders_next_ts, orders_processed, books, presort, apply_log, last_dedup>>

\* strat.init() raises: the exception leaves run() before strat._data_lock = True
InitRaises ==
    /\ pc = "init"
    /\ error' = <<"Exception", "raised in init">>
    /\ pc' = "raised"
    /\ UNCHANGED <<scen, schema, direct_log, data_lock, strat_data, day, si, strat_ts, mask_open, orders,
                   queue, orders_next_ts, orders_processed, books, presort, apply_log,
                   last_dedup>>

\* the scenarios whose strategies assign their table (self.data = ...)
Enriches(s) == s \in {"limit_open", "limit_fill"}

\* the states in which code holding a strategy object can run: its constructor
\* (before the set-up loop reaches it), its callbacks, and the caller after run()
\* has returned or raised
DataWritable == {"enter_init", "init", "on_open", "on_close", "done", "raised"}

\* strategy.data = value on strategy i (Strategy.data setter); a RuntimeError
\* raised inside run() leaves the callback and ends the run
AssignData(i) ==
    /\ pc \in DataWritable
    /\ pc = "raised" => strat_data[1] # "unset"
    /\ Enriches(scen)
    /\ IF data_lock[i]
       THEN /\ error' = <<"RuntimeError", "Attempt to write data post init">>
            /\ pc' = IF pc = "done" THEN "done" ELSE "raised"
            /\ UNCHANGED strat_data
       ELSE /\ strat_data' = [strat_data EXCEPT ![i] = "assigned"]
            /\ UNCHANGED <<error, pc>>
    /\ UNCHANGED <<scen, schema, direct_log, data_lock, day, si, strat_ts, mask_open, orders, queue,
                   orders_next_ts, orders_processed, books, presort, apply_log, last_dedup>>

\* open phase, before the callback: strat._set_ts(ts); strat._mask_open = True
EnterOpen ==
    /\ pc = "enter_open"
    /\ strat_ts' = [strat_ts EXCEPT ![si] = day]
    /\ mask_open' = [mask_open EXCEPT ![si] = TRUE]
    /\ pc' = "on_open"
    /\ UNCHANGED <<scen, schema, direct_log, data_lock, strat_data, error, day, si, orders, queue, orders_next_ts, orders_processed,
                   books, presort, apply_log, last_dedup>>

\* the append with the bug of putting the new order at the head of the queue
AppendOrder_at_head(tpl) ==
    /\ pc \in {"on_open", "on_close"}
    /\ Len(orders) + Reserved(orders) + Cost(tpl)
          + (IF tpl.post = "stop_losses" THEN 1 ELSE 0) <= MaxOrders
    /\ LET born == Tick(day, IF pc = "on_open" THEN "open" ELSE "close")
           id == Len(orders) + 1
       IN  /\ orders' = IF tpl.presub
                        THEN orders \o <<NewOrder(tpl, born, 0, <<id + 1>>),
                                         NewOrder([PresetChild EXCEPT !.hook = tpl.child_hook],
                                                  born, id, <<>>)>>
                        ELSE Append(orders, NewOrder(tpl, born, 0, <<>>))
           /\ queue' = <<id>> \o queue
    /\ UNCHANGED <<scen, schema, direct_log, data_lock, strat_data, error, pc, day, si, strat_ts, mask_open, orders_next_ts,
                   orders_processed, books, presort, apply_log, last_dedup>>

\* inside on_open / on_close: the strategy constructs an order and appends it
\* (self.orders.append(...)); an order constructed with suborders brings its child
AppendOrder(tpl) ==
    /\ pc \in {"on_open", "on_close"}
    /\ Len(orders) + Reserved(orders) + Cost(tpl)
          + (IF tpl.post = "stop_losses" THEN 1 ELSE 0) <= MaxOrders
    /\ LET born == Tick(day, IF pc = "on_open" THEN "open" ELSE "close")
           id == Len(orders) + 1
       IN  /\ orders' = IF tpl.presub
                        THEN orders \o <<NewOrder(tpl, born, 0, <<id + 1>>),
                                         NewOrder([PresetChild EXCEPT !.hook = tpl.child_hook],
                                                  born, id, <<>>)>>
                        ELSE Append(orders, NewOrder(tpl, born, 0, <<>>))
           /\ queue' = Append(queue, id)
    /\ UNCHANGED <<scen, schema, direct_log, data_lock, strat_data, error, pc, day, si, strat_ts, mask_open, orders_next_ts,
                   orders_processed, books, presort, apply_log, last_dedup>>

\* the open phase with the bug of going on to the sort after the first strategy
OnOpenReturn_sorts_after_first ==
    /\ pc = "on_open"
    /\ mask_open' = [mask_open EXCEPT ![si] = FALSE]
    /\ si' = 1
    /\ pc' = "sort"
    /\ UNCHANGED <<scen, schema, direct_log, data_lock, strat_data, error, day, strat_ts, orders,
                   queue, orders_next_ts, orders_processed, books, presort, apply_log,
                   last_dedup>>

\* on_open returns: strat._mask_open = False; next strategy, or on to the sort
OnOpenReturn ==
    /\ pc = "on_open"
    /\ mask_open' = [mask_open EXCEPT ![si] = FALSE]
    /\ IF si < NumStrats(scen)
       THEN si' = si + 1 /\ pc' = "enter_open"
       ELSE si' = 1 /\ pc' = "sort"
    /\ UNCHANGED <<scen, schema, direct_log, data_lock, strat_data, error, day, strat_ts, orders, queue, orders_next_ts,
                   orders_processed, books, presort, apply_log, last_dedup>>

\* self._orders_unprocessed.sort_by_priority(); orders_next_ts = []
SortByPriority ==
    /\ pc = "sort"
    /\ presort' = queue
    /\ queue' = sort_by_priority(orders, queue)
    /\ orders_next_ts' = <<>>
    /\ pc' = "drain"
    /\ UNCHANGED <<scen, schema, direct_log, data_lock, strat_data, error, day, si, strat_ts, mask_open, orders, orders_processed,
                   books, apply_log, last_dedup>>

\* the ledger resolution with the bug of falling back to the last ledger
ResolveBook_falls_back_to_last(s, book) ==
    IF \E b \in BookNames(s) : book = BookInstance(b)
    THEN CHOOSE b \in BookNames(s) : book = BookInstance(b)
    ELSE IF book \in BookNames(s) THEN book ELSE BookList(s)[Len(BookList(s))]

\* if not isinstance(order.book, Book): book_map.get(order.book, self.books[0]);
\* the name of the ledger the order is applied to
ResolveBook(s, book) ==
    IF \E b \in BookNames(s) : book = BookInstance(b)
    THEN CHOOSE b \in BookNames(s) : book = BookInstance(b)
    ELSE IF book \in BookNames(s) THEN book ELSE BookList(s)[1]

\* the children post_complete appends to suborders
PostComplete(o, trades) ==
    IF o.post = "stop_losses"
    THEN [i \in 1..Len(trades) |-> StopLossOrder(trades[i])]
    ELSE <<>>

\* one turn of the drain loop: popleft, resolve the ledger, apply, collect the
\* suborders, then requeue the order or record it as processed (b, out and kids
\* are each computed once: the resolved ledger, apply's outcome, the new children)
ApplyOrder ==
    /\ pc = "drain"
    /\ queue # <<>>
    /\ \E b \in {ResolveBook(scen, orders[Head(queue)].book)} :
       \E out \in {apply([orders[Head(queue)] EXCEPT !.book = BookInstance(b)], books[b],
                         Mandates(scen, b), day, Data(scen)[day])} :
       \E kids \in {IF out.posted THEN PostComplete(orders[Head(queue)], out.trades)
                     ELSE <<>>} :
       LET id == Head(queue)
           o == orders[id]
           kid_ids == [i \in 1..Len(kids) |-> Len(orders) + i]
           suborders == o.suborders \o kid_ids
       IN  /\ queue' = Tail(queue)
           /\ apply_log' = Append(apply_log,
                [day |-> day, id |-> id, raised |-> out.raised, status |-> out.status,
                 hook |-> out.hook, tested |-> out.tested, posted |-> out.posted,
                 trades |-> out.trades, book |-> b, carried |-> o.book,
                 qps |-> Sizing(o, books[b], Data(scen)[day])])
           /\ IF out.raised
              THEN /\ pc' = "raised"
                   /\ error' = IF BasketCalcRaises(o, Data(scen)[day])
                               THEN <<"ZeroDivisionError", "division by zero">>
                               ELSE <<"ValueError", "trade quantity cannot be zero">>
                   /\ orders' = [orders EXCEPT ![id].book = BookInstance(b)]
                   /\ UNCHANGED <<books, orders_next_ts, orders_processed>>
              ELSE /\ pc' = pc
                   /\ UNCHANGED error
                   /\ books' = [books EXCEPT ![b] = out.book]
                   /\ orders' = [orders EXCEPT ![id].book = BookInstance(b),
                                               ![id].status = out.status,
                                               ![id].suborders = suborders,
                                               ![id].posted = @ + (IF out.posted THEN 1 ELSE 0)]
                                \o [i \in 1..Len(kids) |->
                                        NewOrder(kids[i], Tick(day, "drain"), id, <<>>)]
                   /\ orders_next_ts' = orders_next_ts \o suborders
                                        \o (IF out.status = "OPEN" THEN <<id>> ELSE <<>>)
                   /\ orders_processed' = IF out.status = "OPEN" THEN orders_processed
                                          ELSE Append(orders_processed, id)
    /\ UNCHANGED <<scen, schema, direct_log, data_lock, strat_data, day, si, strat_ts, mask_open, presort,
                   last_dedup>>

\* the orders a callback of the scenario applies itself instead of appending them
\* to the queue: one of each variant, carrying no book or the name of a ledger
DirectCatalogue(s) ==
    IF s = "books"
    THEN {[BaseOrder EXCEPT !.variant = v, !.weights = <<1>>, !.book = b] :
            v \in {"Order", "PositionalOrder", "BasketOrder", "PositionalBasketOrder"},
            b \in {None, "GOOG_BOOK"}}
    ELSE {}

\* inside on_open / on_close: the strategy constructs an order and calls
\* order.apply(self.ts, day_data, self.assets) on it itself; an exception leaves the
\* callback and ends the run (b: the ledger handed to the operator apply; an order
\* that is bound to no Book never reads it)
DirectApply(tpl) ==
    /\ pc \in {"on_open", "on_close"}
    /\ Len(orders) + Reserved(orders) + Cost(tpl) <= MaxOrders
    /\ \E b \in {ResolveBook(scen, tpl.book)} :
       \E o \in {NewOrder(tpl, Tick(day, IF pc = "on_open" THEN "open" ELSE "close"), 0, <<>>)} :
       \E out \in {apply(o, books[b], Mandates(scen, b), day, Data(scen)[day])} :
          /\ orders' = Append(orders, [o EXCEPT !.status = out.status])
          /\ direct_log' = Append(direct_log,
                [day |-> day, id |-> Len(orders) + 1, raised |-> out.raised,
                 status |-> out.status, hook |-> out.hook, tested |-> out.tested,
                 posted |-> out.posted, trades |-> out.trades, book |-> b,
                 carried |-> tpl.book,
                 qps |-> IF IsBook(tpl.book) THEN Sizing(o, books[b], Data(scen)[day])
                         ELSE <<>>])
          /\ IF out.raised
             THEN /\ pc' = "raised"
                  /\ error' = <<"RuntimeError", "Cannot apply order without book instance">>
                  /\ UNCHANGED books
             ELSE /\ pc' = pc
                  /\ UNCHANGED error
                  /\ books' = [books EXCEPT ![b] = out.book]
    /\ UNCHANGED <<scen, schema, data_lock, strat_data, day, si, strat_ts, mask_open, queue,
                   orders_next_ts, orders_processed, presort, apply_log, last_dedup>>

\* the batches a callback of the scenario hands to a ledger itself, at timestamp
\* ts: each holds an entry of the base class Transaction, behind a Trade, behind a
\* CashTransaction, or ahead of a Trade
DirectBatches(s, ts) ==
    IF s = "interest"
    THEN {<<Trade("ACME", ts, QScale, 100 * PScale, "direct"), Transaction(ts, 0)>>,
          <<CashTransaction(ts, 50 * CashScale), Transaction(ts, 0)>>,
          <<Transaction(ts, 0), Trade("ACME", ts, QScale, 100 * PScale, "direct")>>}
    ELSE {}

\* inside on_open / on_close: the strategy calls
\* self.books[b].add_transactions(batch) itself; the ValueError leaves the callback
\* and ends the run
DirectBooking(b, batch) ==
    /\ pc \in {"on_open", "on_close"}
    /\ books' = [books EXCEPT ![b] = add_transactions(books[b], batch)]
    /\ IF add_transactions_raises(batch)
       THEN /\ pc' = "raised"
            /\ error' = <<"ValueError", "Unsupport transaction class">>
       ELSE UNCHANGED <<pc, error>>
    /\ UNCHANGED <<scen, schema, direct_log, data_lock, strat_data, day, si, strat_ts, mask_open,
                   orders, queue, orders_next_ts, orders_processed, presort, apply_log,
                   last_dedup>>

\* the end of the drain loop with the bug of not extending the queue
Requeue_forgets_next_ts ==
    /\ pc = "drain"
    /\ queue = <<>>
    /\ queue' = queue
    /\ pc' = "dedup"
    /\ UNCHANGED <<scen, schema, direct_log, data_lock, strat_data, error, day, si, strat_ts, mask_open, orders, orders_next_ts,
                   orders_processed, books, presort, apply_log, last_dedup>>

\* the drain loop ends: self._orders_unprocessed.extend(orders_next_ts)
Requeue ==
    /\ pc = "drain"
    /\ queue = <<>>
    /\ queue' = queue \o orders_next_ts
    /\ pc' = "dedup"
    /\ UNCHANGED <<scen, schema, direct_log, data_lock, strat_data, error, day, si, strat_ts, mask_open, orders, orders_next_ts,
                   orders_processed, books, presort, apply_log, last_dedup>>

\* the deduplication step with the bug of the runner cancelling the orders that
\* stayed OPEN and carry no key
RemoveDuplicateKeys_cancels_keyless ==
    /\ pc = "dedup"
    /\ LET r == remove_duplicate_keys(orders, queue)
       IN  /\ queue' = r.kept
           /\ orders' = [i \in 1..Len(orders) |->
                            IF i \in SeqToSet(r.removed)
                            THEN [orders[i] EXCEPT !.status = "REPLACED"]
                            ELSE IF i \in SeqToSet(queue) /\ orders[i].key = None
                            THEN [orders[i] EXCEPT !.status = "CANCELLED"]
                            ELSE orders[i]]
           /\ orders_processed' = orders_processed \o r.removed
           /\ last_dedup' = [day |-> day, before |-> queue, removed |-> r.removed]
    /\ pc' = "enter_close"
    /\ si' = 1
    /\ UNCHANGED <<scen, schema, direct_log, data_lock, strat_data, error, day, strat_ts, mask_open, orders_next_ts, books, presort,
                   apply_log>>

\* replaced = remove_duplicate_keys(); self.orders_processed.extend(replaced)
RemoveDuplicateKeys ==
    /\ pc = "dedup"
    /\ LET r == remove_duplicate_keys(orders, queue)
       IN  /\ queue' = r.kept
           /\ orders' = [i \in 1..Len(orders) |->
                            IF i \in SeqToSet(r.removed)
                            THEN [orders[i] EXCEPT !.status = "REPLACED"]
                            ELSE orders[i]]
           /\ orders_processed' = orders_processed \o r.removed
           /\ last_dedup' = [day |-> day, before |-> queue, removed |-> r.removed]
    /\ pc' = "enter_close"
    /\ si' = 1
    /\ UNCHANGED <<scen, schema, direct_log, data_lock, strat_data, error, day, strat_ts, mask_open, orders_next_ts, books, presort,
                   apply_log>>

\* close phase, before the callback: strat._set_ts(ts)
EnterClose ==
    /\ pc = "enter_close"
    /\ strat_ts' = [strat_ts EXCEPT ![si] = day]
    /\ pc' = "on_close"
    /\ UNCHANGED <<scen, schema, direct_log, data_lock, strat_data, error, day, si, mask_open, orders, queue, orders_next_ts,
                   orders_processed, books, presort, apply_log, last_dedup>>

\* on_close returns: next strategy, or on to the end-of-day tasks
OnCloseReturn ==
    /\ pc = "on_close"
    /\ IF si < NumStrats(scen)
       THEN si' = si + 1 /\ pc' = "enter_close"
       ELSE si' = 1 /\ pc' = "eod"
    /\ UNCHANGED <<scen, schema, direct_log, data_lock, strat_data, error, day, strat_ts, mask_open, orders, queue, orders_next_ts,
                   orders_processed, books, presort, apply_log, last_dedup>>

\* for book in self.books: book.eod_tasks(...); then the next timestamp, or the end
EodTasks ==
    /\ pc = "eod"
    /\ books' = [b \in BookNames(scen) |->
                    eod_tasks(books[b], Growth(scen, b), day, Data(scen)[day])]
    /\ IF day < NumDays
       THEN day' = day + 1 /\ pc' = "enter_open"
       ELSE day' = day /\ pc' = "done"
    /\ UNCHANGED <<scen, schema, direct_log, data_lock, strat_data, error, si, strat_ts, mask_open, orders, queue, orders_next_ts,
                   orders_processed, presort, apply_log, last_dedup>>

Next ==
    \/ Construct
    \/ EnterInit
    \/ \E i \in 1..NumStrats(scen) : AssignData(i)
    \/ InitReturn
    \/ InitRaises
    \/ EnterOpen
    \/ \E tpl \in Catalogue(scen) : AppendOrder(tpl)
    \/ \E tpl \in DirectCatalogue(scen) : DirectApply(tpl)
    \/ \E b \in DOMAIN books : \E batch \in DirectBatches(scen, day) : DirectBooking(b, batch)
    \/ OnOpenReturn
    \/ SortByPriority
    \/ ApplyOrder
    \/ Requeue
    \/ RemoveDuplicateKeys
    \/ EnterClose
    \/ OnCloseReturn
    \/ EodTasks

Spec == Init /\ [][Next]_vars

-----------------------------------------------------------------------------
(* Vocabulary of the properties *)

Last(s) == s[Len(s)]

\* this step is one call of order.apply
Applies == Len(apply_log') = Len(apply_log) + 1

\* cash, positions and transactions of a ledger
Ledger(book) == [cash |-> book.cash, positions |-> book.positions,
                 transactions |-> book.transactions]

\* the drain of the current timestamp has run to its end
Drained == pc \in {"dedup", "enter_close", "on_close", "eod", "done"}

\* the identities applied at timestamp d, in call order
AppliedAt(d) ==
    LET idx == {i \in 1..Len(apply_log) : apply_log[i].day = d}
        F[i \in 0..Len(apply_log)] ==
            IF i = 0 THEN <<>>
            ELSE IF i \in idx THEN Append(F[i - 1], apply_log[i].id) ELSE F[i - 1]
    IN  F[Len(apply_log)]

\* the first timestamp whose drain can see an order constructed at tick born
FirstDay(born) == IF born % 3 = 0 THEN born \div 3 ELSE born \div 3 + 1

-----------------------------------------------------------------------------
\* C1: whenever an order of any variant hands a trade batch to its ledger and the
\* ledger's mandate test rejects the batch, the ledger's cash, positions and
\* transactions are exactly what they were before apply, the order becomes
\* MANDATE_FAILED, and its post-completion hook is not invoked (no call is
\* counted, no child order is created).
MandateAtomicity ==
    [][ Applies =>
          LET e == Last(apply_log')
          IN  (e.tested /\ ~test_trades(books[e.book], Mandates(scen, e.book), e.trades))
                => /\ books' = books
                   /\ orders'[e.id].status = "MANDATE_FAILED"
                   /\ orders'[e.id].posted = orders[e.id].posted
                   /\ orders'[e.id].suborders = orders[e.id].suborders
                   /\ Len(orders') = Len(orders) ]_vars

\* C1 witness: a two-asset basket whose batch the mandate rejected, on a ledger
\* that already holds a position
MandateRejectedBasket ==
    /\ apply_log # <<>>
    /\ Last(apply_log).status = "MANDATE_FAILED"
    /\ orders[Last(apply_log).id].variant \in {"BasketOrder", "PositionalBasketOrder"}
    /\ Len(Last(apply_log).trades) >= 2
    /\ books[Last(apply_log).book].transactions # <<>>

-----------------------------------------------------------------------------
\* sum of the totals (-quantity * price) of the Trades among transactions that
\* were booked at a timestamp <= ts
RECURSIVE TradeTotalUpTo(_, _)
TradeTotalUpTo(transactions, ts) ==
    IF transactions = <<>> THEN 0
    ELSE (IF Head(transactions).kind = "Trade" /\ Head(transactions).ts <= ts
          THEN 0 - Head(transactions).quantity * Head(transactions).price ELSE 0)
         + TradeTotalUpTo(Tail(transactions), ts)

\* sum of the quantities of the Trades in one asset
RECURSIVE TradedQuantity(_, _)
TradedQuantity(transactions, asset_name) ==
    IF transactions = <<>> THEN 0
    ELSE (IF Head(transactions).kind = "Trade" /\ Head(transactions).asset_name = asset_name
          THEN Head(transactions).quantity ELSE 0)
         + TradedQuantity(Tail(transactions), asset_name)

\* cash and positions of every zero-rate ledger are its trades added up
CashAndPositionsConserved ==
    \A b \in DOMAIN books :
        Growth(scen, b)[1] = 0 =>
            /\ books[b].cash = InitialCash(scen, b) + TradeTotalUpTo(books[b].transactions, NumDays)
            /\ \A a \in AssetNames(scen) :
                    books[b].positions[a] = TradedQuantity(books[b].transactions, a)

\* C2 as stated: cash = initial cash - sum(quantity * price), position = sum of
\* quantities, and the cash recorded in the history at each timestamp equals the
\* cumulative sum of -quantity * price of the trades booked up to that timestamp.
MoneyConservationAsStated ==
    /\ CashAndPositionsConserved
    /\ \A b \in DOMAIN books :
          Growth(scen, b)[1] = 0 =>
            \A i \in 1..Len(books[b].history) :
                LET h == books[b].history[i]
                IN  /\ h.cash.exact
                    /\ h.cash.val = TradeTotalUpTo(books[b].transactions, h.ts)

\* C2 amended: as stated, but the cash recorded in the history at each timestamp
\* is the float conversion of the ledger's initial cash plus the cumulative sum of
\* -quantity * price of the trades booked up to that timestamp.
MoneyConservation ==
    /\ CashAndPositionsConserved
    /\ \A b \in DOMAIN books :
          Growth(scen, b)[1] = 0 =>
            \A i \in 1..Len(books[b].history) :
                LET h == books[b].history[i]
                IN  h.cash = ToFloat(InitialCash(scen, b)
                                     + TradeTotalUpTo(books[b].transactions, h.ts))

\* C2 witness: a finished run of a ledger that started with cash and booked trades
\* on two different timestamps
ConservedAfterTrades ==
    /\ pc = "done"
    /\ \E b \in DOMAIN books :
          /\ InitialCash(scen, b) # 0
          /\ Len(books[b].history) = NumDays
          /\ \E i, j \in 1..Len(books[b].transactions) :
                books[b].transactions[i].ts < books[b].transactions[j].ts

-----------------------------------------------------------------------------
\* the place of the m-th order of the unsorted queue in a stable descending sort
Rank(m) ==
    1 + Cardinality({n \in 1..Len(presort) :
            \/ orders[presort[n]].priority > orders[presort[m]].priority
            \/ orders[presort[n]].priority = orders[presort[m]].priority /\ n < m})

\* the trades a ledger booked for orders at timestamp d, in ledger order (a trade
\* that a callback booked itself carries the label "direct")
BookedAt(b, d) ==
    LET IsAt(t) == t.kind = "Trade" /\ t.ts = d /\ t.order_label # "direct"
    IN  SelectSeq(books[b].transactions, IsAt)

\* the batches of the applies at timestamp d that ended COMPLETE on ledger b, in
\* call order
BatchesAt(b, d) ==
    LET F[i \in 0..Len(apply_log)] ==
            IF i = 0 THEN <<>>
            ELSE IF /\ apply_log[i].day = d /\ apply_log[i].book = b
                    /\ ~apply_log[i].raised /\ apply_log[i].status = "COMPLETE"
                 THEN F[i - 1] \o apply_log[i].trades
                 ELSE F[i - 1]
    IN  F[Len(apply_log)]

\* the queue of the current timestamp has been sorted
Sorted == pc \in {"drain", "raised"} \/ Drained

\* C3: within one timestep the orders are applied in descending order of priority,
\* and orders of equal priority in the order in which they stood in the queue
\* before the sort: the k-th order applied is the one a stable descending sort
\* puts k-th; the trades are booked in the same order.
PriorityOrdering ==
    Sorted =>
        LET A == AppliedAt(day)
        IN  /\ Len(A) <= Len(presort)
            /\ \A m \in 1..Len(presort) : Rank(m) <= Len(A) => A[Rank(m)] = presort[m]
            /\ \A b \in DOMAIN books : BookedAt(b, day) = BatchesAt(b, day)

\* C3 witness: orders with priorities 2, 3, 1 enqueued in that order are applied
\* and booked in the order 3, 2, 1
PrioritiesTwoThreeOne ==
    /\ scen = "priority"
    /\ Drained
    /\ Len(orders) = 3
    /\ presort = <<1, 2, 3>>
    /\ <<orders[1].priority, orders[2].priority, orders[3].priority>> = <<2, 3, 1>>
    /\ AppliedAt(day) = <<2, 1, 3>>
    /\ Len(books["Main"].transactions) = 3

-----------------------------------------------------------------------------
\* the orders the last deduplication left in the queue
Retained == SelectSeq(last_dedup.before, LAMBDA o : o \notin SeqToSet(last_dedup.removed))

\* C4: whenever the deduplication step finds several queued orders with the same
\* non-null key, the most recently enqueued one is retained with status OPEN and
\* every one enqueued earlier is REPLACED and recorded in orders_processed (order
\* identities count the constructions, so a larger identity is a later enqueue).
KeyReplacementKeepsNewest ==
    \A i \in 1..Len(last_dedup.removed) :
        LET r == last_dedup.removed[i]
        IN  /\ orders[r].status = "REPLACED"
            /\ r \in SeqToSet(orders_processed)
            /\ \E o \in SeqToSet(Retained) :
                  /\ orders[o].key = orders[r].key
                  /\ o > r
                  /\ pc = "enter_close" => orders[o].status = "OPEN"
            /\ \A o \in SeqToSet(Retained) :
                  orders[o].key = orders[r].key => o > r

\* C5: once a newer order with the same non-null key has been enqueued, the older
\* order's apply is not invoked again: no call of apply is made on an order while
\* a later-constructed order with its key is already in the run.
SupersededNeverApplied ==
    \A i \in 1..Len(apply_log) :
        LET e == apply_log[i]
        IN  \A n \in 1..Len(orders) :
                ~ /\ orders[n].key # None
                  /\ orders[n].key = orders[e.id].key
                  /\ orders[n].born > orders[e.id].born
                  /\ orders[n].born < Tick(e.day, "drain")

-----------------------------------------------------------------------------
\* an entry of apply_log is a call of PositionalOrder.apply with check type
\* POS_TQ_DIFFER whose hook let it proceed
IsPositionalCall(e) ==
    /\ orders[e.id].variant = "PositionalOrder"
    /\ orders[e.id].check_type = "POS_TQ_DIFFER"
    /\ e.hook = None
    /\ ~e.raised

-----------------------------------------------------------------------------
\* what self.data gives the strategy whose callback is running
View == StrategyData(scen, strat_ts[si], mask_open[si])

\* C7: during every on_open callback at timestep t the row of t shows High, Low,
\* Close and Volume of every asset as null and Open unmasked, and all rows before
\* t show all fields unmasked; during every on_close callback at t the row of t
\* (and every row before it) shows all fields unmasked.
OpenMasking ==
    /\ pc = "on_open" =>
          /\ DOMAIN View = 1..day
          /\ \A a \in AssetNames(scen) :
                /\ \A f \in {"High", "Low", "Close", "Volume"} : View[day][a][f] = NaN
                /\ View[day][a]["Open"] = Data(scen)[day][a]["Open"]
          /\ \A d \in 1..(day - 1) : View[d] = Data(scen)[d]
    /\ pc = "on_close" =>
          /\ DOMAIN View = 1..day
          /\ \A d \in 1..day : View[d] = Data(scen)[d]

\* C7 witness: an on_open callback at the second timestep of a run over full
\* OHLC rows: today's Close is hidden, today's Open and yesterday's Close are shown
MaskedSecondOpen ==
    /\ pc = "on_open"
    /\ day = 2
    /\ \A a \in AssetNames(scen) :
          /\ \A f \in Fields : Data(scen)[2][a][f] # NaN
          /\ View[2][a]["Close"] = NaN
          /\ View[2][a]["Open"] # NaN
          /\ View[1][a]["Close"] # NaN

-----------------------------------------------------------------------------
\* the calls of apply on order i at timestamp d
CallsAt(i, d) == {j \in 1..Len(apply_log) : apply_log[j].id = i /\ apply_log[j].day = d}

\* the last timestamp whose drain has run to its end
LastDrained == IF Drained THEN day ELSE day - 1

\* a Market order a strategy enqueued, without a key (so never superseded)
IsCarried(i) ==
    orders[i].variant = "Order" /\ orders[i].parent = 0 /\ orders[i].key = None

\* one call of Order.apply: OPEN books nothing and requeues, a terminal hook
\* result books nothing and records the order, None books one Trade at the
\* timestep's execution price (the ledger's mandates accepting it)
CarryStep ==
    Applies =>
      LET e == Last(apply_log')
          o == orders[e.id]
          b == e.book
          t == Trade(o.asset_names[1], day, e.qps[1][1],
                     intraday_traded_price(Data(scen)[day][o.asset_names[1]]), o.label)
      IN  (o.variant = "Order" /\ ~e.raised) =>
            /\ e.hook = "OPEN" =>
                  /\ books' = books
                  /\ orders'[e.id].status = "OPEN"
                  /\ Last(orders_next_ts') = e.id
                  /\ orders_processed' = orders_processed
            /\ e.hook = "CANCELLED" =>
                  /\ books' = books
                  /\ orders'[e.id].status = "CANCELLED"
                  /\ orders_processed' = Append(orders_processed, e.id)
            /\ (e.hook = None /\ test_trades(books[b], Mandates(scen, b), <<t>>)) =>
                  /\ books'[b].transactions = Append(books[b].transactions, t)
                  /\ orders'[e.id].status = "COMPLETE"
                  /\ orders_processed' = Append(orders_processed, e.id)

\* an unresolved order is applied once at every timestep from the first drain
\* that can see it up to the timestep that resolves it, and at no other; if the
\* calendar ends first it is in the unprocessed queue with status OPEN
CarriedEveryTimestep ==
    \A i \in 1..Len(orders) :
        IsCarried(i) =>
            /\ \A d \in 1..LastDrained :
                  LET resolved == \E j \in 1..Len(apply_log) :
                                      /\ apply_log[j].id = i
                                      /\ apply_log[j].day < d
                                      /\ apply_log[j].status # "OPEN"
                  IN  Cardinality(CallsAt(i, d)) =
                          IF d >= FirstDay(orders[i].born) /\ ~resolved THEN 1 ELSE 0
            /\ (pc = "done" /\ orders[i].status = "OPEN") =>
                  /\ i \in SeqToSet(queue)
                  /\ i \notin SeqToSet(orders_processed)

\* with closes 95, 100, 85 and the hook CANCELLED above 110 / None below 90 /
\* else OPEN, an order placed at the first timestep's close is COMPLETE after
\* the third timestep's drain, with exactly one Trade, booked there at 85
PlacedAtFirstClose(i) ==
    /\ IsCarried(i)
    /\ orders[i].hook = "limit"
    /\ orders[i].born = Tick(1, "close")

LimitExample ==
    (scen = "limit_fill" /\ LastDrained >= 3) =>
        \A i \in 1..Len(orders) :
            PlacedAtFirstClose(i) =>
                /\ orders[i].status = "COMPLETE"
                /\ CallsAt(i, 1) = {}
                /\ \A j \in CallsAt(i, 2) : apply_log[j].hook = "OPEN" /\ apply_log[j].trades = <<>>
                /\ \A j \in CallsAt(i, 3) :
                      apply_log[j].trades = <<Trade("ACME", 3, QScale, 8500, None)>>
                /\ Trade("ACME", 3, QScale, 8500, None)
                      \in SeqToSet(books["Main"].transactions)

-----------------------------------------------------------------------------
\* an order that a post-completion hook appended to its parent's suborders
IsPostChild(k) == orders[k].parent # 0 /\ orders[k].born % 3 = 1

\* the place of an order in a list of orders (0: not in it)
IndexIn(seq, k) ==
    IF k \in SeqToSet(seq) THEN CHOOSE n \in 1..Len(seq) : seq[n] = k ELSE 0

Occurrences(seq, k) == Cardinality({n \in 1..Len(seq) : seq[n] = k})

\* C9: a child order appended to suborders by a post-completion hook at timestep
\* t is not applied at t, is in the unprocessed queue at the end of t, is first
\* applied in the drain of t+1 and then at every timestep while its own hook
\* returns OPEN; its parent is recorded in orders_processed as COMPLETE before
\* the child is recorded.
PostCompletionChaining ==
    \A k \in 1..Len(orders) :
        IsPostChild(k) =>
            LET t == orders[k].born \div 3
                par == orders[k].parent
            IN  /\ \A d \in 1..t : CallsAt(k, d) = {}
                /\ (day = t /\ Drained) =>
                      /\ Occurrences(queue, k) = 1
                      /\ orders[k].status = "OPEN"
                /\ \A d \in (t + 1)..LastDrained :
                      LET resolved == \E j \in 1..Len(apply_log) :
                                          /\ apply_log[j].id = k
                                          /\ apply_log[j].day < d
                                          /\ apply_log[j].status # "OPEN"
                      IN  Cardinality(CallsAt(k, d)) = IF resolved THEN 0 ELSE 1
                /\ orders[par].status = "COMPLETE"
                /\ IndexIn(orders_processed, par) > 0
                /\ k \in SeqToSet(orders_processed) =>
                      IndexIn(orders_processed, par) < IndexIn(orders_processed, k)

\* C9 witness: a stop-loss child created at the first timestep was applied and
\* left OPEN at the second, completed at the third, and is recorded after its parent
StopLossChained ==
    /\ pc = "done"
    /\ \E k \in 1..Len(orders) :
          /\ IsPostChild(k)
          /\ orders[k].born = Tick(1, "drain")
          /\ \E j \in CallsAt(k, 2) : apply_log[j].status = "OPEN"
          /\ \E j \in CallsAt(k, 3) : apply_log[j].status = "COMPLETE"
          /\ orders_processed = <<orders[k].parent, k>>

-----------------------------------------------------------------------------
\* the order was enqueued: by a strategy callback, or as a suborder when the
\* runner collected its parent's suborders after a call of apply
Enqueued(i) ==
    \/ orders[i].parent = 0 /\ \A k \in 1..Len(direct_log) : direct_log[k].id # i
    \/ \E j \in 1..Len(apply_log) :
          apply_log[j].id = orders[i].parent /\ ~apply_log[j].raised

\* C10: after the run every order that was ever enqueued is in exactly one of
\* orders_processed and orders_unprocessed and appears there exactly once;
\* orders_processed holds exactly the orders with a terminal status and
\* orders_unprocessed exactly the orders still OPEN.
OrderConservation ==
    pc = "done" =>
        \A i \in 1..Len(orders) :
            Enqueued(i) =>
                /\ Occurrences(orders_processed, i) + Occurrences(queue, i) = 1
                /\ i \in SeqToSet(orders_processed) <=> orders[i].status \in Terminal
                /\ i \in SeqToSet(queue) <=> orders[i].status = "OPEN"

-----------------------------------------------------------------------------
\* C11: once an order's status is COMPLETE, CANCELLED, MANDATE_FAILED or REPLACED
\* it is never re-appended to the unprocessed queue (nor to the next-timestep
\* buffer that feeds it), never applied again, and its status never changes; the
\* runner re-queues an order if and only if its status after apply is OPEN.
TerminalAbsorbing ==
    [][ /\ \A i \in 1..Len(orders) :
              orders[i].status \in Terminal =>
                  /\ orders'[i].status = orders[i].status
                  /\ ~(Applies /\ Last(apply_log').id = i)
                  /\ Occurrences(queue', i) <= Occurrences(queue, i)
                  /\ Occurrences(orders_next_ts', i) <= Occurrences(orders_next_ts, i)
        /\ (Applies /\ ~Last(apply_log').raised) =>
              LET id == Last(apply_log').id
              IN  (Occurrences(orders_next_ts', id) = Occurrences(orders_next_ts, id) + 1)
                      <=> orders'[id].status = "OPEN" ]_vars

-----------------------------------------------------------------------------
\* an entry of apply_log is a call of BasketOrder.apply with size type NOTIONAL
\* whose sizing did not divide by zero
IsNotionalBasketCall(e) ==
    /\ orders[e.id].variant = "BasketOrder"
    /\ orders[e.id].size_type = "NOTIONAL"
    /\ e.qps # <<>>

\* sum of quantity x price over the legs of a sizing, in 1e-4 units
RECURSIVE LegsValue(_)
LegsValue(qps) ==
    IF qps = <<>> THEN 0 ELSE Head(qps)[1] * Head(qps)[2] + LegsValue(Tail(qps))

RECURSIVE LegsPrice(_)
LegsPrice(qps) == IF qps = <<>> THEN 0 ELSE Head(qps)[2] + LegsPrice(Tail(qps))

\* C12: a BasketOrder with size type NOTIONAL sizes every leg as
\* size x weight_i / sum_j(weight_j x price_j) rounded to the quantity precision
\* (one scale factor k for all legs), so that sum_i(quantity_i x price_i) equals
\* size up to rounding (half a quantity unit per leg); weights [1,2], size 300
\* and prices [50,100] give quantities [1.2, 2.4].
BasketNotionalScaling ==
    \A n \in 1..Len(apply_log) :
        LET e == apply_log[n]
            o == orders[e.id]
            S == WeightedSum(o.weights, [i \in 1..Len(e.qps) |-> e.qps[i][2]])
        IN  IsNotionalBasketCall(e) =>
              /\ Len(e.qps) = Len(o.weights)
              /\ \A i \in 1..Len(e.qps) :
                    2 * Abs(e.qps[i][1] * o.size_d * S
                            - o.size_n * o.weights[i] * QScale * PScale)
                        <= Abs(o.size_d * S)
              /\ 2 * Abs(LegsValue(e.qps) * o.size_d - o.size_n * CashScale)
                    <= o.size_d * LegsPrice(e.qps)
              /\ ( /\ o.weights = <<1, 2>> /\ o.size_n = 300 /\ o.size_d = 1
                   /\ e.qps[1][2] = 50 * PScale /\ e.qps[2][2] = 100 * PScale )
                 => (e.qps[1][1] = 120 /\ e.qps[2][1] = 240)
              /\ (~e.raised /\ e.status = "COMPLETE") =>
                    \A i \in 1..Len(e.qps) :
                        /\ e.trades[i].quantity = e.qps[i][1]
                        /\ e.trades[i].price = e.qps[i][2]

\* C12 witness: the basket of the example was booked with quantities 1.2 and
\* 2.4, and a basket whose scale factor is not a round number (prices 47 and
\* 103) was booked too
NotionalBasketsBooked ==
    \E m, n \in 1..Len(apply_log) :
        /\ IsNotionalBasketCall(apply_log[m]) /\ IsNotionalBasketCall(apply_log[n])
        /\ apply_log[m].status = "COMPLETE" /\ apply_log[n].status = "COMPLETE"
        /\ apply_log[m].qps = <<<<120, 5000>>, <<240, 10000>>>>
        /\ apply_log[n].qps[1][2] = 4700
        /\ orders[apply_log[n].id].size_n = 300

-----------------------------------------------------------------------------
\* C13: an order that carries a Book is applied to that ledger, an order that
\* carries the name of a configured ledger to the ledger of that name, an order
\* with no ledger or with a name that matches no configured ledger to the first
\* configured ledger; the apply changes the cash, positions and transactions of
\* the resolved ledger only.
LedgerResolution ==
    [][ Applies =>
          LET e == Last(apply_log')
              carried == orders[e.id].book
          IN  /\ \A b \in BookNames(scen) :
                    /\ carried = BookInstance(b) => e.book = b
                    /\ carried = b => e.book = b
              /\ ( /\ carried \notin BookNames(scen)
                   /\ \A b \in BookNames(scen) : carried # BookInstance(b) )
                 => e.book = BookList(scen)[1]
              /\ \A b \in BookNames(scen) \ {e.book} : books'[b] = books[b]
              /\ (~e.raised /\ e.status = "COMPLETE") =>
                    books'[e.book].transactions = books[e.book].transactions \o e.trades
       ]_vars

\* C13 witness: with two ledgers configured, an order naming no configured
\* ledger was booked on the first, an order naming the second and an order
\* carrying the second as a Book were booked on the second
BookedOnBothLedgers ==
    /\ scen = "books"
    /\ Len(apply_log) = 3
    /\ \E i, j, k \in 1..3 :
          /\ apply_log[i].carried = "NO_SUCH_BOOK" /\ apply_log[i].book = "MSFT_BOOK"
          /\ apply_log[j].carried = "GOOG_BOOK" /\ apply_log[j].book = "GOOG_BOOK"
          /\ apply_log[k].carried = BookInstance("GOOG_BOOK")
          /\ apply_log[k].book = "GOOG_BOOK"
    /\ Len(books["MSFT_BOOK"].transactions) = 1
    /\ Len(books["GOOG_BOOK"].transactions) = 2

-----------------------------------------------------------------------------
(* C14 *)

\* the strategy whose init() the runner is executing (0: none)
InInit == IF pc = "init" THEN si ELSE 0

\* a strategy's lock is open exactly while the runner executes that strategy's init()
LockOpenOnlyInInit ==
    \A i \in 1..NumStrats(scen) : ~data_lock[i] <=> InInit = i

\* a step changes a strategy's stored data only when the runner hands it its copy
\* on entering its init() or while its init() executes; the setter's RuntimeError
\* leaves every strategy's data as it was
LockedWritesFail ==
    /\ \A i \in 1..NumStrats(scen) :
          strat_data'[i] # strat_data[i] =>
              \/ pc = "enter_init" /\ si = i /\ pc' = "init"
              \/ InInit = i /\ pc' = "init"
    /\ (error' # error /\ error'[1] = "RuntimeError") => strat_data' = strat_data

\* C14: assigning a strategy's data is accepted only while the runner is executing
\* that strategy's init(); in every other state (before its init, during on_open,
\* during on_close, after the run) the assignment fails with an error and the
\* strategy's stored data is unchanged
StrategyDataLock == []LockOpenOnlyInInit /\ [][LockedWritesFail]_vars

-----------------------------------------------------------------------------
(* C15 *)

\* the table handed to the constructor is malformed in one of the ways named: its
\* timestamps decrease or repeat, its columns are flat or have three levels, a
\* registered asset has no columns, or a registered asset has no Close column
Malformed ==
    schema \in {"index_decreasing", "index_duplicate", "columns_flat",
                "columns_three_levels", "asset_without_columns", "close_missing"}

\* nothing of the simulation has happened: no callback has been entered, no strategy
\* has been given data, no order exists or has been applied, and the ledgers are
\* the supplied ones as they were constructed (none where none was supplied)
NothingSimulated ==
    /\ \A i \in 1..NumStrats(scen) : strat_ts[i] = 0 /\ strat_data[i] = "unset"
    /\ orders = <<>> /\ queue = <<>>
    /\ apply_log = <<>> /\ orders_processed = <<>>
    /\ books = [b \in SeqToSet(SuppliedBooks(scen)) |-> NewBook(scen, b)]

\* C15: constructing a runner with a price table whose timestamps are not increasing
\* or not unique, whose columns are not a two-level asset/field index, in which a
\* registered asset has no columns, or in which a registered asset lacks its Close
\* field fails with an error at construction: the run is either not yet constructed
\* or has ended with a ValueError, and no strategy callback has run, no order has been
\* applied and no ledger has been created or mutated
SchemaErrorsFirst ==
    Malformed =>
        /\ pc \in {"construct", "raised"}
        /\ pc = "raised" => error[1] = "ValueError"
        /\ NothingSimulated

\* the constructor has rejected a table in which a registered asset has no Close column
CloseMissingRejected ==
    /\ schema = "close_missing"
    /\ pc = "raised"
    /\ error = <<"ValueError", "data columns index requires fields">>
    /\ NothingSimulated

-----------------------------------------------------------------------------
(* C16 *)

\* no Trade with quantity zero is in any ledger's transactions
NoZeroTrades ==
    \A b \in DOMAIN books :
        \A i \in 1..Len(books[b].transactions) :
            books[b].transactions[i].kind = "Trade" =>
                books[b].transactions[i].quantity # 0

\* the step applies a Market order or a Basket order one of whose legs has a rounded
\* computed quantity of zero
AppliesZeroLeg ==
    /\ Len(apply_log') = Len(apply_log) + 1
    /\ LET e == Last(apply_log')
       IN  /\ orders[e.id].variant \in {"Order", "BasketOrder"}
           /\ \E i \in 1..Len(e.qps) : e.qps[i][1] = 0

\* the apply fails at Trade construction, and the ledgers and the order's status
\* are what they were before the call
FailsAtTradeConstruction ==
    LET e == Last(apply_log')
    IN  /\ e.raised
        /\ pc' = "raised"
        /\ error' = <<"ValueError", "trade quantity cannot be zero">>
        /\ books' = books
        /\ orders'[e.id].status = orders[e.id].status

\* C16 as stated: no Trade with quantity zero ever exists in any ledger's
\* transactions, and applying a Market order or a Basket order with a zero leg
\* fails at Trade construction with the ledger and the order's status unchanged
DegenerateTradeAsStated ==
    []NoZeroTrades /\ [][AppliesZeroLeg => FailsAtTradeConstruction]_vars

\* C16, amended: no Trade with quantity zero ever exists in any ledger's
\* transactions; applying a Market order or a Basket order with a zero leg fails at
\* Trade construction, with the ledger's cash, positions and transactions and the
\* order's status unchanged, when apply gets as far as constructing the trades,
\* that is unless the order's pre-execution hook returned a status (OPEN or
\* CANCELLED), in which case the order takes that status and nothing fails
DegenerateTrade ==
    /\ []NoZeroTrades
    /\ [][AppliesZeroLeg =>
            LET e == Last(apply_log')
            IN  IF e.hook \in {None, "not_called"}
                THEN FailsAtTradeConstruction
                ELSE /\ ~e.raised
                     /\ orders'[e.id].status = e.hook
                     /\ books' = books]_vars

\* after a basket has been booked, a basket with a zero weight has failed at Trade
\* construction
ZeroWeightBasketFailed ==
    /\ pc = "raised"
    /\ error = <<"ValueError", "trade quantity cannot be zero">>
    /\ apply_log # <<>>
    /\ LET e == Last(apply_log)
       IN  /\ e.raised
           /\ orders[e.id].variant = "BasketOrder"
           /\ orders[e.id].weights = <<1, 0>>
           /\ books[e.book].transactions # <<>>

-----------------------------------------------------------------------------
(* C18 *)

\* this step is a call of apply in which the ledger's mandates reject the batch
MandateRejects ==
    /\ Applies
    /\ LET e == Last(apply_log')
       IN  e.tested /\ ~test_trades(books[e.book], Mandates(scen, e.book), e.trades)

\* the rejection is recorded on the order and in orders_processed, no ledger
\* changes, and the drain goes on with the orders behind the rejected one
RejectionIsLocal ==
    LET e == Last(apply_log')
    IN  /\ orders'[e.id].status = "MANDATE_FAILED"
        /\ books' = books
        /\ orders_processed' = Append(orders_processed, e.id)
        /\ queue' = Tail(queue)
        /\ pc' = "drain" /\ day' = day /\ error' = error

\* what a ledger has booked stays booked
StaysBooked ==
    \A b \in DOMAIN books :
        /\ Len(books'[b].transactions) >= Len(books[b].transactions)
        /\ SubSeq(books'[b].transactions, 1, Len(books[b].transactions))
              = books[b].transactions

\* once the drain of the current timestep has ended, every order that stood
\* behind a rejected order in the sorted queue has been applied after it, in the
\* same drain
AppliedBehindRejected ==
    Drained =>
        LET sorted == sort_by_priority(orders, presort)
            at == {j \in 1..Len(apply_log) : apply_log[j].day = day}
        IN  \A j \in at :
                apply_log[j].status = "MANDATE_FAILED" =>
                    LET p == j - (Len(apply_log) - Cardinality(at))
                    IN  /\ p \in 1..Len(sorted) /\ sorted[p] = apply_log[j].id
                        /\ \A q \in p + 1..Len(sorted) :
                              /\ j + (q - p) \in at
                              /\ apply_log[j + (q - p)].id = sorted[q]

\* a run that has ended normally has run the end-of-day tasks of every timestep
RanToEnd ==
    pc = "done" =>
        /\ day = NumDays
        /\ \A i \in 1..NumStrats(scen) : strat_ts[i] = NumDays
        /\ \A b \in DOMAIN books : Len(books[b].history) = NumDays

\* C18: when an order becomes MANDATE_FAILED during a drain, the trades booked by
\* orders applied earlier in the same timestep stay booked, every order behind it
\* in the queue is still applied in the same drain, the remaining phases of the
\* timestep and all later timesteps run, and the failed order is recorded in
\* orders_processed
MandateFailureLocal ==
    /\ [][(MandateRejects => RejectionIsLocal) /\ StaysBooked]_vars
    /\ [](AppliedBehindRejected /\ RanToEnd)

\* a run ended normally in whose first drain an order was booked, the next was
\* rejected by the mandate and the one behind it was booked
BookedRejectedBooked ==
    /\ pc = "done"
    /\ Len(apply_log) = 3
    /\ \A j \in 1..3 : apply_log[j].day = 1 /\ apply_log[j].id = j
    /\ apply_log[1].status = "COMPLETE"
    /\ apply_log[2].status = "MANDATE_FAILED"
    /\ apply_log[3].status = "COMPLETE"
    /\ orders_processed = <<1, 2, 3>>
    /\ Len(books["Main"].transactions) >= 2

-----------------------------------------------------------------------------
(* C19 *)

\* this step is a call of apply that leaves a PositionalOrder or a
\* PositionalBasketOrder with check type POS_TQ_DIFFER COMPLETE
PositionalCompletes ==
    /\ Applies
    /\ LET e == Last(apply_log')
       IN  /\ orders[e.id].variant \in {"PositionalOrder", "PositionalBasketOrder"}
           /\ orders[e.id].check_type = "POS_TQ_DIFFER"
           /\ ~e.raised /\ e.status = "COMPLETE"

\* the target of every leg is zero: size zero, or all weights zero
ZeroTarget(o) ==
    \/ o.size_n = 0
    \/ o.variant = "PositionalBasketOrder" /\ \A i \in 1..Len(o.weights) : o.weights[i] = 0

\* C19: after a PositionalOrder or a PositionalBasketOrder with check type
\* POS_TQ_DIFFER reaches COMPLETE, the ledger's position in each asset of the order
\* equals that asset's rounded target quantity, whatever the position was before; a
\* target of zero (or all-zero basket weights) leaves every ordered asset with
\* position zero
PositionalReachesTarget ==
    [][PositionalCompletes =>
         LET e == Last(apply_log')
             o == orders[e.id]
         IN  /\ Len(e.qps) = Len(o.asset_names)
             /\ \A i \in 1..Len(o.asset_names) :
                   /\ books'[e.book].positions[o.asset_names[i]] = e.qps[i][1]
                   /\ ZeroTarget(o) => books'[e.book].positions[o.asset_names[i]] = 0]_vars

\* a positional basket with all-zero weights has closed two open positions
ZeroBasketClosedAll ==
    /\ apply_log # <<>>
    /\ LET e == Last(apply_log)
           o == orders[e.id]
       IN  /\ o.variant = "PositionalBasketOrder" /\ o.weights = <<0, 0>>
           /\ e.status = "COMPLETE"
           /\ Len(e.trades) = 2
           /\ \A i \in 1..2 : e.trades[i].quantity # 0
           /\ \A a \in AssetNames(scen) : books[e.book].positions[a] = 0

-----------------------------------------------------------------------------
(* C20 *)

\* this step is a call of PositionalOrder.apply that finds a trade needed: the hook
\* let it proceed, and the position differs from the target (POS_TQ_DIFFER) or is
\* zero (ZERO_POS)
PositionalNeedsTrade ==
    /\ Applies
    /\ LET e == Last(apply_log')
           o == orders[e.id]
           current == books[e.book].positions[o.asset_names[1]]
       IN  /\ o.variant = "PositionalOrder"
           /\ e.hook = None /\ ~e.raised
           /\ IF o.check_type = "POS_TQ_DIFFER" THEN current # e.qps[1][1] ELSE current = 0

\* the trade set the claim describes for the call of this step: at the execution
\* price, a closing Trade if the position is nonzero, then an opening Trade if the
\* target is nonzero
TradeSet ==
    LET e == Last(apply_log')
        o == orders[e.id]
        a == o.asset_names[1]
        current == books[e.book].positions[a]
        target == e.qps[1][1]
        price == intraday_traded_price(Data(scen)[day][a])
        closing == [kind |-> "Trade", asset_name |-> a, ts |-> day, quantity |-> 0 - current,
                    price |-> price, order_label |-> o.label, total |-> current * price]
        opening == [kind |-> "Trade", asset_name |-> a, ts |-> day, quantity |-> target,
                    price |-> price, order_label |-> o.label, total |-> 0 - target * price]
    IN  (IF current # 0 THEN <<closing>> ELSE <<>>) \o (IF target # 0 THEN <<opening>> ELSE <<>>)

\* two Trades from a nonzero position to a different nonzero target, one when
\* opening from zero, one when closing to zero
TradeCounts ==
    LET e == Last(apply_log')
        current == books[e.book].positions[orders[e.id].asset_names[1]]
        target == e.qps[1][1]
    IN  /\ (current # 0 /\ target # 0) => Len(TradeSet) = 2
        /\ (current = 0 /\ target # 0) => Len(TradeSet) = 1
        /\ (current # 0 /\ target = 0) => Len(TradeSet) = 1

\* C20 as stated: when a PositionalOrder needs a trade, it books, in this order and
\* at the same execution price, the closing Trade if and only if the position is
\* nonzero, then the opening Trade if and only if the target is nonzero
PositionalTradeSetAsStated ==
    [][PositionalNeedsTrade =>
         LET e == Last(apply_log')
         IN  /\ TradeCounts
             /\ books'[e.book].transactions = books[e.book].transactions \o TradeSet]_vars

\* C20, amended: when a PositionalOrder needs a trade, it builds, in this order and
\* at the same execution price, the closing Trade if and only if the position is
\* nonzero, then the opening Trade if and only if the target is nonzero (two, one
\* and one Trades in the three cases), and hands this batch to the ledger: the
\* batch is booked as built when the ledger's mandates accept it, and nothing is
\* booked and the order becomes MANDATE_FAILED when they reject it
PositionalTradeSet ==
    [][PositionalNeedsTrade =>
         LET e == Last(apply_log')
             b == e.book
         IN  /\ TradeCounts
             /\ e.trades = TradeSet
             /\ e.tested
             /\ IF test_trades(books[b], Mandates(scen, b), TradeSet)
                THEN /\ books'[b].transactions = books[b].transactions \o TradeSet
                     /\ orders'[e.id].status = "COMPLETE"
                ELSE /\ books'[b] = books[b]
                     /\ orders'[e.id].status = "MANDATE_FAILED"]_vars

\* a positional order has moved a nonzero position to a different nonzero target
\* with a closing and an opening Trade at one price
ClosedThenOpened ==
    /\ apply_log # <<>>
    /\ LET e == Last(apply_log)
       IN  /\ orders[e.id].variant = "PositionalOrder"
           /\ e.status = "COMPLETE"
           /\ Len(e.trades) = 2
           /\ e.trades[1].quantity = 0 - QScale
           /\ e.trades[2].quantity = 2 * QScale
           /\ e.trades[1].price = e.trades[2].price
           /\ Len(books[e.book].transactions) = 3
           /\ books[e.book].positions["ACME"] = 2 * QScale
-----------------------------------------------------------------------------
(* C21 *)

\* the timestamps whose end-of-day tasks have run
Processed == IF pc = "done" THEN day ELSE day - 1

\* sum of the totals of the transactions (trades and cash movements) with a
\* timestamp <= ts
RECURSIVE TotalUpTo(_, _)
TotalUpTo(transactions, ts) ==
    IF transactions = <<>> THEN 0
    ELSE (IF Head(transactions).ts <= ts THEN Head(transactions).total ELSE 0)
         + TotalUpTo(Tail(transactions), ts)

\* the position in one asset after the trades with a timestamp <= ts
RECURSIVE PositionUpTo(_, _, _)
PositionUpTo(transactions, asset_name, ts) ==
    IF transactions = <<>> THEN 0
    ELSE (IF /\ Head(transactions).kind = "Trade"
             /\ Head(transactions).asset_name = asset_name
             /\ Head(transactions).ts <= ts
          THEN Head(transactions).quantity ELSE 0)
         + PositionUpTo(Tail(transactions), asset_name, ts)

\* sum over the assets of position x close of timestamp ts
RECURSIVE CloseValue(_, _, _)
CloseValue(transactions, ts, names) ==
    IF names = {} THEN 0
    ELSE LET an == CHOOSE a \in names : TRUE
         IN  PositionUpTo(transactions, an, ts) * Data(scen)[ts][an]["Close"]
             + CloseValue(transactions, ts, names \ {an})

\* C21: after the runner has processed n timestamps every ledger's history holds
\* exactly n records, the i-th for the i-th timestamp of the calendar; its cash is
\* the ledger's cash after all bookings of that timestamp, the day's interest
\* included, its mark-to-market is the sum over the assets of position x close of
\* that timestamp, and its total is cash + mark-to-market.
ValuationHistory ==
    \A b \in DOMAIN books :
        /\ Len(books[b].history) = Processed
        /\ \A i \in 1..Len(books[b].history) :
              LET h == books[b].history[i]
              IN  /\ h.ts = i
                  /\ h.cash = ToFloat(InitialCash(scen, b)
                                      + TotalUpTo(books[b].transactions, i))
                  /\ h.mtm.val = CloseValue(books[b].transactions, i, AssetNames(scen))
                  /\ h.total.val = h.cash.val + h.mtm.val

\* C21 witness: a finished run of a ledger that earns interest: it bought on the
\* first day, was paid interest on every day, and its last record values the
\* position at the last close
ValuedWithInterest ==
    /\ pc = "done"
    /\ \E b \in DOMAIN books :
          /\ Growth(scen, b)[1] # 0
          /\ Len(books[b].history) = NumDays
          /\ \A d \in Calendar :
                \E i \in 1..Len(books[b].transactions) :
                    /\ books[b].transactions[i].kind = "CashTransaction"
                    /\ books[b].transactions[i].ts = d
          /\ books[b].transactions[1].kind = "Trade"
          /\ books[b].transactions[1].ts = 1
          /\ Last(books[b].history).mtm.val # 0
          /\ Last(books[b].history).cash.val = books[b].cash
-----------------------------------------------------------------------------
(* C22 *)

\* the call of apply of this step got as far as computing its execution prices
Priced(e) == e.qps # <<>>

\* the verdict the order's pre-execution hook gives for the first execution price
\* of the call
Verdict(e) == pre_execute_check(orders[e.id].hook, e.day, e.qps[1][2])

\* this call of apply invoked the hook and obeyed it
HookObeyed ==
    Applies =>
        LET e == Last(apply_log')
        IN  Priced(e) =>
              /\ e.hook # "not_called"
              /\ e.hook = Verdict(e)
              /\ e.hook # None =>
                    /\ e.trades = <<>>
                    /\ ~e.tested
                    /\ ~e.raised
                    /\ orders'[e.id].status = e.hook
                    /\ books' = books
              /\ e.hook = "OPEN" =>
                    /\ e.id \in SeqToSet(orders_next_ts')
                    /\ e.id \notin SeqToSet(orders_processed')

\* C22: for each of the four order variants apply invokes the pre-execution hook
\* with the computed execution price before any trade is built or booked; when the
\* hook yields a status the order takes that status and nothing is booked, and
\* when it yields OPEN the order stays queued for the following timestep.
PreExecutionHookEveryVariant == [][HookObeyed]_vars
-----------------------------------------------------------------------------
(* C23 *)

\* the assets a batch trades
BatchAssets(trades) == {trades[i].asset_name : i \in 1..Len(trades)}

\* every mandated asset of the batch accepts the ledger's position and the sum of
\* the quantities of all trades of the batch in that asset
AggregateAccepted(book, mandates, trades) ==
    \A a \in BatchAssets(trades) :
        mandates[a] # NoMandate =>
            MandateCheck(mandates[a], book.positions[a], TradedQuantity(trades, a))

\* the batch this call of apply handed to the ledger passed (the order became
\* COMPLETE) exactly when the mandates accept the aggregates
PassesOnAggregate ==
    Applies =>
        LET e == Last(apply_log')
        IN  e.tested =>
              ((e.status = "COMPLETE")
                 <=> AggregateAccepted(books[e.book], Mandates(scen, e.book), e.trades))

\* C23: for every batch of trades, in whatever order the trades of different
\* assets appear in it, the ledger checks the mandate of each mandated asset
\* against the current position and the sum of the quantities of all trades of the
\* batch in that asset, and the batch passes if and only if every check accepts.
MandateOnAggregate == [][PassesOnAggregate]_vars
-----------------------------------------------------------------------------
(* C24 *)

\* check_type warrants a trade of one asset: its position differs from the target
\* (POS_TQ_DIFFER), or its position is zero (ZERO_POS)
Warranted(check_type, current_position, trade_quantity) ==
    IF check_type = "POS_TQ_DIFFER" THEN current_position # trade_quantity
    ELSE current_position = 0

\* the batch of a positional basket when every asset is checked on its own
PerAssetBatch(o, e, book) ==
    Concat([i \in 1..Len(e.qps) |->
                IF Warranted(o.check_type, book.positions[o.asset_names[i]], e.qps[i][1])
                THEN CloseAndOpen(o.asset_names[i], e.day, book.positions[o.asset_names[i]],
                                  e.qps[i][1], e.qps[i][2], o.label)
                ELSE <<>>])

\* this call of apply on a PositionalBasketOrder built the trades of exactly the
\* assets for which a trade is warranted
TradesPerAsset ==
    (Applies /\ orders[Last(apply_log').id].variant = "PositionalBasketOrder"
             /\ ~Last(apply_log').raised) =>
        LET e == Last(apply_log')
        IN  e.trades = PerAssetBatch(orders[e.id], e, books[e.book])

\* C24: a PositionalBasketOrder compares, for each asset of the basket separately,
\* the current position with that asset's target according to check_type and
\* emits closing/opening trades only for the assets for which a trade is
\* warranted; an asset whose position already equals its target (POS_TQ_DIFFER)
\* gets no trade even when other assets of the basket are traded.
PositionalBasketPerAsset == [][TradesPerAsset]_vars
-----------------------------------------------------------------------------
(* C25 *)

\* this step is a call of apply on a PositionalOrder with check type ZERO_POS
AppliesZeroPos ==
    /\ Applies
    /\ orders[Last(apply_log').id].variant = "PositionalOrder"
    /\ orders[Last(apply_log').id].check_type = "ZERO_POS"

\* the opening trade of the call: the target quantity at the execution price
OpeningTrade(e) ==
    Trade(orders[e.id].asset_names[1], e.day, e.qps[1][1], e.qps[1][2], orders[e.id].label)

\* the position the ledger holds, before the call, in the order's asset
PositionBefore(e) == books[e.book].positions[orders[e.id].asset_names[1]]

\* with a nonzero position the call books nothing and the order becomes COMPLETE
NonzeroPositionSkips(e) ==
    PositionBefore(e) # 0 =>
        /\ e.trades = <<>>
        /\ books' = books
        /\ orders'[e.id].status = "COMPLETE"

ZeroPosAsStatedStep ==
    AppliesZeroPos =>
        LET e == Last(apply_log')
        IN  /\ NonzeroPositionSkips(e)
            /\ (PositionBefore(e) = 0 /\ e.qps[1][1] # 0) =>
                  books'[e.book].transactions
                      = Append(books[e.book].transactions, OpeningTrade(e))

\* C25 as stated: a PositionalOrder with check type ZERO_POS books nothing, leaves
\* the ledger unchanged and becomes COMPLETE when the position is nonzero, and
\* books exactly one opening Trade of the target quantity when the position is
\* zero and the target is not.
ZeroPosCheckAsStated == [][ZeroPosAsStatedStep]_vars

ZeroPosStep ==
    AppliesZeroPos =>
        LET e == Last(apply_log')
        IN  IF e.hook # None
            THEN /\ e.trades = <<>>
                 /\ books' = books
                 /\ orders'[e.id].status = e.hook
            ELSE /\ NonzeroPositionSkips(e)
                 /\ (PositionBefore(e) = 0 /\ e.qps[1][1] # 0) =>
                       /\ e.trades = <<OpeningTrade(e)>>
                       /\ IF AggregateAccepted(books[e.book], Mandates(scen, e.book), e.trades)
                          THEN /\ books'[e.book].transactions
                                     = Append(books[e.book].transactions, OpeningTrade(e))
                               /\ books'[e.book].positions[orders[e.id].asset_names[1]]
                                     = e.qps[1][1]
                               /\ orders'[e.id].status = "COMPLETE"
                          ELSE /\ books' = books
                               /\ orders'[e.id].status = "MANDATE_FAILED"

\* C25, amended: a PositionalOrder with check type ZERO_POS whose pre-execution
\* hook returns None books nothing, leaves the ledger unchanged and becomes
\* COMPLETE when the position is nonzero; when the position is zero and the target
\* is not, it builds exactly one opening Trade of the target quantity, which is
\* booked (COMPLETE) if the ledger's mandates accept it and otherwise leaves the
\* ledger unchanged (MANDATE_FAILED).  When the hook returns a status the order
\* takes it and nothing is booked.
ZeroPosCheck == [][ZeroPosStep]_vars

\* C25 witness: three ZERO_POS orders were applied to one ledger: the first opened
\* its target on the empty ledger, the second found the position nonzero and
\* completed without a trade, and one with a target beyond the mandate was refused
\* on an empty ledger
ZeroPosOpenedThenSkipped ==
    \E i, j \in 1..Len(apply_log) :
        /\ i < j
        /\ orders[apply_log[i].id].check_type = "ZERO_POS"
        /\ orders[apply_log[j].id].check_type = "ZERO_POS"
        /\ apply_log[i].status = "COMPLETE" /\ Len(apply_log[i].trades) = 1
        /\ apply_log[j].status = "COMPLETE" /\ apply_log[j].trades = <<>>
        /\ apply_log[j].hook = None
        /\ \E k \in 1..Len(apply_log) :
              /\ orders[apply_log[k].id].check_type = "ZERO_POS"
              /\ apply_log[k].status = "MANDATE_FAILED"
-----------------------------------------------------------------------------
(* C26 *)

\* the book attribute is None or a name: it is none of the run's Book objects
Unbound(book) == \A b \in BookNames(scen) : book # BookInstance(b)

\* this step is a call of apply, by a callback, on an order whose book is not a
\* Book instance (the runner binds a Book to every order before it calls apply)
AppliesUnbound ==
    /\ Len(direct_log') = Len(direct_log) + 1
    /\ Unbound(Last(direct_log').carried)

NoBookStep ==
    AppliesUnbound =>
        LET e == Last(direct_log')
        IN  /\ e.raised
            /\ error' = <<"RuntimeError", "Cannot apply order without book instance">>
            /\ pc' = "raised"
            /\ e.qps = <<>>
            /\ e.hook = "not_called"
            /\ e.trades = <<>>
            /\ ~e.tested
            /\ ~e.posted
            /\ orders'[e.id].status = "OPEN"
            /\ books' = books

\* C26: calling apply on an order of any variant whose book is None or a name
\* rather than a Book instance raises an error before any quantity is computed,
\* any hook is invoked or any trade is built; the order's status stays OPEN and no
\* ledger is mutated.
NoBookIsFatal == [][NoBookStep]_vars

\* C26 witness: after an order was booked on the ledger GOOG_BOOK, a callback
\* applied a PositionalBasketOrder carrying the name GOOG_BOOK; the call raised,
\* the order is OPEN and the ledger holds what it held
NamedBasketRefused ==
    /\ pc = "raised"
    /\ error[1] = "RuntimeError"
    /\ direct_log # <<>>
    /\ LET e == Last(direct_log)
       IN  /\ orders[e.id].variant = "PositionalBasketOrder"
           /\ e.carried = "GOOG_BOOK"
           /\ e.raised
           /\ orders[e.id].status = "OPEN"
    /\ Len(books["GOOG_BOOK"].transactions) = 1
-----------------------------------------------------------------------------
(* C27 *)

\* an order a strategy appended to the queue in on_open (phase "open") or in
\* on_close (phase "close") of timestamp t
AppendedIn(i, t, phase) ==
    /\ Enqueued(i)
    /\ orders[i].parent = 0
    /\ orders[i].born = Tick(t, phase)

\* the timestamps at which order i was applied
DaysApplied(i) == {apply_log[j].day : j \in {k \in 1..Len(apply_log) : apply_log[k].id = i}}

\* every strategy has been given timestamp `day` and has returned from on_open
AllOpened == \A i \in 1..NumStrats(scen) : strat_ts[i] = day /\ ~mask_open[i]

\* the order of the phases: calls of apply happen in the drain only, after every
\* strategy's on_open of the timestamp; the drain is entered from the sort, and the
\* sort when the last strategy returns from on_open; from the close phase on
\* nothing is applied; the end-of-day tasks are entered when the last strategy
\* returns from on_close, and only they append to a ledger's history; the
\* timestamp advances by one, after the end-of-day tasks
PhaseStep ==
    /\ Applies => pc = "drain" /\ AllOpened /\ Last(apply_log').day = day
    /\ (pc' = "sort" /\ pc # "sort") => pc = "on_open" /\ si = NumStrats(scen)
    /\ (pc' = "drain" /\ pc # "drain") => pc = "sort"
    /\ (pc' = "on_close" /\ pc # "on_close") => pc = "enter_close" /\ queue' = queue
    /\ (pc' = "enter_close" /\ pc # "enter_close") => pc \in {"dedup", "on_close"}
    /\ (pc' = "dedup" /\ pc # "dedup") => pc = "drain" /\ queue = <<>>
    /\ pc \in {"dedup", "enter_close", "on_close", "eod"} => apply_log' = apply_log
    /\ (pc' = "eod" /\ pc # "eod") => pc = "on_close" /\ si = NumStrats(scen)
    /\ (\E b \in DOMAIN books : b \in DOMAIN books' /\ books'[b].history # books[b].history)
          => pc = "eod"
    /\ day' # day => pc = "eod" /\ day' = day + 1 /\ pc' = "enter_open"

\* what follows for the orders: one appended in on_open at t is applied at t and
\* not before; one appended in on_close at t is applied first at t + 1; one appended
\* in on_close of the last timestamp is never applied and stays OPEN in
\* orders_unprocessed; and every trade built at t carries t and t's price
PhaseConsequences ==
    /\ \A i \in 1..Len(orders) : \A t \in Calendar :
          /\ AppendedIn(i, t, "open") =>
                /\ \A d \in DaysApplied(i) : d >= t
                /\ t <= LastDrained => t \in DaysApplied(i)
          /\ AppendedIn(i, t, "close") =>
                /\ \A d \in DaysApplied(i) : d >= t + 1
                /\ t + 1 <= LastDrained => t + 1 \in DaysApplied(i)
                /\ (t = NumDays /\ pc = "done") =>
                      /\ DaysApplied(i) = {}
                      /\ orders[i].status = "OPEN"
                      /\ Occurrences(queue, i) = 1
                      /\ i \notin SeqToSet(orders_processed)
    /\ \A j \in 1..Len(apply_log) : \A k \in 1..Len(apply_log[j].trades) :
          LET tr == apply_log[j].trades[k]
          IN  /\ tr.ts = apply_log[j].day
              /\ tr.price = intraday_traded_price(Data(scen)[apply_log[j].day][tr.asset_name])

\* C27: for each timestamp t, in ascending calendar order, all strategies' on_open
\* callbacks finish before the first order is applied at t, every order
\* application at t precedes every on_close callback at t, and every on_close
\* callback at t precedes every ledger's end-of-day accrual at t; hence an order
\* enqueued in on_open at t is applied at t with t's data, an order enqueued in
\* on_close at t is first applied at t + 1, and an order enqueued in on_close of
\* the last timestamp is never applied and remains OPEN in orders_unprocessed.
PhaseOrder == []PhaseConsequences /\ [][PhaseStep]_vars

\* C27 witness: a finished run with two strategies in which an order appended in
\* on_open of the first timestamp was applied at the first timestamp, one appended
\* in on_close of the first timestamp was applied first at the second, and one
\* appended in on_close of the last timestamp is still OPEN in the queue
OpenCloseAndLastClose ==
    /\ pc = "done"
    /\ NumStrats(scen) = 2
    /\ \E i, j, k \in 1..Len(orders) :
          /\ AppendedIn(i, 1, "open") /\ 1 \in DaysApplied(i)
          /\ AppendedIn(j, 1, "close") /\ 2 \in DaysApplied(j) /\ 1 \notin DaysApplied(j)
          /\ AppendedIn(k, NumDays, "close") /\ DaysApplied(k) = {}
          /\ k \in SeqToSet(queue)
-----------------------------------------------------------------------------
(* C28 *)

\* a callback of strategy si is running
InCallback == pc \in {"on_open", "on_close"}

\* C28: in every on_open and on_close callback at timestep t the strategy's data
\* view contains exactly the rows of the price table with timestamp <= t: every
\* such row is there, with the table's values (at open those of the fields not
\* masked), and no row with a later timestamp is visible.
NoLookAhead ==
    InCallback =>
        /\ strat_ts[si] = day
        /\ DOMAIN View = {d \in Calendar : d <= day}
        /\ \A d \in DOMAIN View : \A a \in AssetNames(scen) : \A f \in Fields :
              \/ View[d][a][f] = Data(scen)[d][a][f]
              \/ pc = "on_open" /\ d = day /\ View[d][a][f] = NaN

\* C28 witness: the second strategy of a run is in its on_close callback at the
\* second timestamp; the table has a later row, and the view ends at the second
WindowEndsAtSecond ==
    /\ pc = "on_close"
    /\ si = 2
    /\ day = 2
    /\ day + 1 \in DOMAIN Data(scen)
    /\ DOMAIN View = {1, 2}
    /\ View[2] = Data(scen)[2]
-----------------------------------------------------------------------------
(* C29 *)

IsPrefix(s, t) == Len(s) <= Len(t) /\ \A i \in 1..Len(s) : t[i] = s[i]

\* every ledger's transactions before the step are a prefix of those after it
TransactionsGrow ==
    \A b \in DOMAIN books :
        /\ b \in DOMAIN books'
        /\ IsPrefix(books[b].transactions, books'[b].transactions)

\* a call of apply that ends COMPLETE appends its batch, as built, to the end of
\* its ledger's transactions and leaves the other ledgers' transactions alone; a
\* positional batch of two trades closes first and opens second
BatchAppendedWhole ==
    (Applies /\ Last(apply_log').status = "COMPLETE") =>
        LET e == Last(apply_log')
        IN  /\ books'[e.book].transactions = books[e.book].transactions \o e.trades
            /\ \A b \in DOMAIN books \ {e.book} :
                  books'[b].transactions = books[b].transactions
            /\ (orders[e.id].variant = "PositionalOrder" /\ Len(e.trades) = 2) =>
                  /\ e.trades[1].quantity = 0 - PositionBefore(e)
                  /\ e.trades[2].quantity = e.qps[1][1]

\* only a booked batch, the end-of-day interest and a callback's own call of
\* add_transactions extend a ledger's transactions
OnlyBookingsExtend ==
    (\E b \in DOMAIN books : books'[b].transactions # books[b].transactions) =>
        \/ Applies /\ Last(apply_log').status = "COMPLETE"
        \/ pc \in {"on_open", "on_close"} /\ ~Applies
        \/ /\ pc = "eod"
           /\ \A b \in DOMAIN books :
                 \/ books'[b].transactions = books[b].transactions
                 \/ /\ Len(books'[b].transactions) = Len(books[b].transactions) + 1
                    /\ Last(books'[b].transactions).kind = "CashTransaction"

\* C29: in every step of a run a ledger's transactions list after the step has
\* the list before the step as a prefix; a successfully booked batch is appended as
\* a whole in the order of the batch (for a positional order the closing trade
\* before the opening trade), and no entry is ever removed, reordered or altered.
TransactionsAppendOnly ==
    [][TransactionsGrow /\ BatchAppendedWhole /\ OnlyBookingsExtend]_vars

\* C29 witness: a ledger that held one trade from the first timestamp has, at the
\* second, been extended by the batch of a positional order: the trade closing the
\* position, then the trade opening the target
PositionalBatchAtEnd ==
    /\ pc = "drain"
    /\ day = 2
    /\ apply_log # <<>>
    /\ orders[Last(apply_log).id].variant = "PositionalOrder"
    /\ Last(apply_log).day = 2
    /\ Last(apply_log).status = "COMPLETE"
    /\ LET t == books[Last(apply_log).book].transactions
       IN  /\ Len(t) = 3
           /\ t[1].ts = 1
           /\ <<t[2], t[3]>> = Last(apply_log).trades
           /\ t[2].quantity = 0 - t[1].quantity
           /\ t[3].quantity # 0
-----------------------------------------------------------------------------
(* C30 *)

\* this step is a call of apply on a BasketOrder with size type BOOK_PERCENT
AppliesPercentBasket ==
    /\ Applies
    /\ orders[Last(apply_log').id].variant = "BasketOrder"
    /\ orders[Last(apply_log').id].size_type = "BOOK_PERCENT"

\* ledger cash plus, over the basket's assets, position x execution price (1e-4)
RECURSIVE BasketBookValue(_, _, _)
BasketBookValue(book, asset_names, prices) ==
    IF asset_names = <<>> THEN book.cash
    ELSE book.positions[Head(asset_names)] * Head(prices)
         + BasketBookValue(book, Tail(asset_names), Tail(prices))

\* the sizes an order's size field can take in place of its own
OtherSizes == {1, 2, 50, 100}

PercentBasketStep ==
    AppliesPercentBasket =>
        LET e == Last(apply_log')
            o == orders[e.id]
            prices == [i \in 1..Len(o.asset_names) |->
                          intraday_traded_price(Data(scen)[e.day][o.asset_names[i]])]
            value == BasketBookValue(books[e.book], o.asset_names, prices)
        IN  /\ Len(e.qps) = Len(o.weights)
            /\ \A i \in 1..Len(e.qps) :
                  /\ e.qps[i][2] = prices[i]
                  /\ e.qps[i][1] = RoundHalfEven(value * o.weights[i], 100 * prices[i])
            /\ \A n \in OtherSizes :
                  basket_calc_quantity_price([o EXCEPT !.size_n = n], books[e.book],
                                             Data(scen)[e.day]) = e.qps

\* C30: for a BasketOrder with size type BOOK_PERCENT the quantity of asset i is
\* (ledger cash + sum over the basket's assets of current position x execution
\* price) x weight_i / 100 / price_i, rounded to the asset's quantity precision;
\* two such orders that differ only in their size field compute identical
\* quantities.
BasketBookPercentIgnoresSize == [][PercentBasketStep]_vars

\* C30 witness: on a ledger that holds positions in both assets of the basket and
\* is worth 1000, a BOOK_PERCENT basket of size 50 with weights 1 and 2 was booked
\* with the quantities 0.10 (1000 x 1 / 100 / 101) and 0.40 (1000 x 2 / 100 / 50)
PercentBasketOfSizeFifty ==
    /\ apply_log # <<>>
    /\ LET e == Last(apply_log)
       IN  /\ orders[e.id].size_type = "BOOK_PERCENT"
           /\ orders[e.id].size_n = 50
           /\ e.status = "COMPLETE"
           /\ Len(books[e.book].transactions) = 4
           /\ e.trades[1].quantity = 10
           /\ e.trades[2].quantity = 40
-----------------------------------------------------------------------------
(* C31 *)

\* this step applies an Order or a PositionalOrder whose size is a percentage of
\* the ledger's cash
AppliesPercentSingle ==
    /\ Applies
    /\ orders[Last(apply_log').id].variant \in {"Order", "PositionalOrder"}
    /\ orders[Last(apply_log').id].size_type = "BOOK_PERCENT"

\* the ledger's cash as its transactions give it: the initial cash plus the total
\* of everything booked so far, this timestep's earlier bookings included
CashBooked(b) == InitialCash(scen, b) + TotalUpTo(books[b].transactions, day)

PercentSingleStep ==
    AppliesPercentSingle =>
        LET e == Last(apply_log')
            o == orders[e.id]
            price == intraday_traded_price(Data(scen)[day][o.asset_names[1]])
            q == RoundHalfEven(CashBooked(e.book) * o.size_n, 100 * o.size_d * price)
        IN  /\ e.qps = <<(<<q, price>>)>>
            /\ (e.tested /\ e.trades # <<>> /\ q # 0) =>
                    /\ Last(e.trades).quantity = q
                    /\ Last(e.trades).price = price
                    /\ Last(e.trades).asset_name = o.asset_names[1]

\* C31: a Market or Positional order with size type BOOK_PERCENT computes its
\* quantity as ledger cash x size / 100 / execution price from the cash the ledger
\* holds when the order is applied, i.e. after every order applied earlier in the
\* same timestep has been booked; the trade it opens has that quantity.
BookPercentUsesCurrentCash == [][PercentSingleStep]_vars

\* C31 witness: two market orders of 10 percent were applied to one ledger in the
\* same timestep and both were booked; the first bought more than the second,
\* which was sized from the cash the first had left
SecondPercentOrderSmaller ==
    \E i, j \in 1..Len(apply_log) :
        /\ i < j
        /\ apply_log[i].day = apply_log[j].day
        /\ apply_log[i].book = apply_log[j].book
        /\ \A k \in {i, j} :
              /\ orders[apply_log[k].id].variant = "Order"
              /\ orders[apply_log[k].id].size_type = "BOOK_PERCENT"
              /\ orders[apply_log[k].id].size_n = 10
              /\ apply_log[k].status = "COMPLETE"
        /\ apply_log[i].trades[1].quantity > apply_log[j].trades[1].quantity
        /\ apply_log[j].trades[1].quantity > 0

-----------------------------------------------------------------------------
(* C32 *)

\* this step is the runner's call of apply on order i
AppliesTo(i) == Applies /\ Last(apply_log').id = i

\* this step is the runner's deduplication step
Deduplicates == pc = "dedup" /\ pc' = "enter_close"

\* order i is in the queue ahead of another order with the same non-null key
Superseded(i) ==
    \E m, n \in 1..Len(queue) :
        /\ m < n
        /\ queue[m] = i
        /\ orders[i].key # None
        /\ orders[queue[n]].key = orders[i].key

\* the way order i's status changes in this step, if it does
ProvenanceOf(i) ==
    orders'[i].status # orders[i].status =>
        CASE orders'[i].status = "CANCELLED" ->
                /\ AppliesTo(i)
                /\ Last(apply_log').hook = "CANCELLED"
                /\ pre_execute_check(orders[i].hook, day,
                        intraday_traded_price(Data(scen)[day][orders[i].asset_names[1]]))
                      = "CANCELLED"
          [] orders'[i].status = "MANDATE_FAILED" ->
                /\ AppliesTo(i)
                /\ Last(apply_log').tested
                /\ ~test_trades(books[Last(apply_log').book],
                                Mandates(scen, Last(apply_log').book),
                                Last(apply_log').trades)
          [] orders'[i].status = "REPLACED" ->
                /\ Deduplicates
                /\ Superseded(i)
          [] OTHER -> AppliesTo(i)

StatusProvenanceStep ==
    /\ \A i \in 1..Len(orders) : ProvenanceOf(i)
    /\ \A i \in Len(orders) + 1..Len(orders') :
          \/ orders'[i].status = "OPEN"
          \/ /\ Len(direct_log') = Len(direct_log) + 1
             /\ Last(direct_log').id = i
             /\ orders'[i].status = "COMPLETE"
             /\ Last(direct_log').tested

\* C32: an order reaches CANCELLED only as the value returned by its own
\* pre-execution hook, MANDATE_FAILED only when the ledger's mandate test rejected
\* its batch, and REPLACED only in the queue's key-based replacement; no other step
\* of the runner, the queue or the ledger changes an order's status.
StatusProvenance == [][StatusProvenanceStep]_vars

\* C32 witness: an order that its hook left OPEN at one timestamp was cancelled by
\* the same hook at a later one, and the run went on to its end
CancelledByOwnHook ==
    /\ pc = "done"
    /\ \E m, n \in 1..Len(apply_log) :
          /\ m < n
          /\ apply_log[m].id = apply_log[n].id
          /\ apply_log[m].hook = "OPEN"
          /\ apply_log[n].hook = "CANCELLED"
          /\ orders[apply_log[n].id].status = "CANCELLED"

-----------------------------------------------------------------------------
(* C33 *)

\* this step is the end-of-day tasks of the current timestamp
RunsEodTasks == pc = "eod" /\ pc' # "eod"

\* the interest of the day on ledger b: the cash times rate.exp() - 1, rounded
DayInterest(b) == Interest(books[b].cash, Growth(scen, b))

EodFrameStep ==
    RunsEodTasks =>
        \A b \in DOMAIN books :
            /\ books'[b].positions = books[b].positions
            /\ Len(books'[b].history) = Len(books[b].history) + 1
            /\ SubSeq(books'[b].history, 1, Len(books[b].history)) = books[b].history
            /\ Last(books'[b].history).ts = day
            /\ Last(books'[b].history).cash = ToFloat(books'[b].cash)
            /\ IF Growth(scen, b)[1] = 0 \/ DayInterest(b) = 0
               THEN /\ books'[b].cash = books[b].cash
                    /\ books'[b].transactions = books[b].transactions
               ELSE /\ books'[b].cash = books[b].cash + DayInterest(b)
                    /\ books'[b].transactions =
                          Append(books[b].transactions,
                                 [kind |-> "CashTransaction", asset_name |-> "", ts |-> day,
                                  quantity |-> 0, price |-> 0, order_label |-> "",
                                  total |-> DayInterest(b)])

\* C33: eod_tasks never changes a position; when the ledger's rate is zero, or the
\* rounded interest is zero, it changes neither cash nor transactions and only
\* appends one history record; when the rounded interest is nonzero it books exactly
\* one CashTransaction whose total is the interest, before the valuation, so that
\* the history record of that day already includes it.
EodFrame == [][EodFrameStep]_vars

\* C33 witness: a ledger with a nonzero rate spent all its cash at the first
\* timestamp, so that no interest was booked that day, and was paid interest at the
\* second; both days have their history record
NoInterestThenInterest ==
    \E b \in DOMAIN books :
        /\ Growth(scen, b)[1] # 0
        /\ Len(books[b].history) >= 2
        /\ books[b].history[1].cash.val = 0
        /\ \A i \in 1..Len(books[b].transactions) :
              books[b].transactions[i].kind = "CashTransaction" =>
                  books[b].transactions[i].ts # 1
        /\ \E i \in 1..Len(books[b].transactions) :
              /\ books[b].transactions[i].kind = "CashTransaction"
              /\ books[b].transactions[i].ts = 2
              /\ books[b].transactions[i].total > 0
              /\ books[b].history[2].cash.val > books[b].transactions[i].total

-----------------------------------------------------------------------------
(* C34 *)

\* this step is a call of add_transactions that fails on an entry that is neither
\* a Trade nor a CashTransaction
BookingFails ==
    /\ error' # error
    /\ error' = <<"ValueError", "Unsupport transaction class">>

\* C34: when add_transactions fails on a batch because an entry is neither a Trade
\* nor a CashTransaction, the ledger's cash, positions and transactions are what
\* they were before the call: the entries of the batch that precede the offending
\* entry are not booked either.
NoPartialBooking ==
    [][BookingFails => \A b \in DOMAIN books : Ledger(books'[b]) = Ledger(books[b])]_vars

-----------------------------------------------------------------------------
(* C35 *)

\* the calls of apply made in the drain of timestamp d
EntriesAt(d) == {k \in 1..Len(apply_log) : apply_log[k].day = d}

\* order i stayed OPEN in the drain of timestamp d
StayedOpenAt(i, d) ==
    \E k \in EntriesAt(d) :
        apply_log[k].id = i /\ apply_log[k].status = "OPEN" /\ ~apply_log[k].raised

\* order i was scheduled as a suborder in the drain of timestamp d
ScheduledAt(i, d) ==
    \E k \in EntriesAt(d) :
        /\ ~apply_log[k].raised
        /\ i \in SeqToSet(orders[apply_log[k].id].suborders)
        /\ orders[i].born <= Tick(d, "drain")

\* order i came into the drain of timestamp d from the drain before it
CarriedInto(i, d) == d > 1 /\ (StayedOpenAt(i, d - 1) \/ ScheduledAt(i, d - 1))

\* order i was appended by a strategy in on_close of d - 1 or in on_open of d
NewFor(i, d) ==
    /\ orders[i].parent = 0
    /\ \A k \in 1..Len(direct_log) : direct_log[k].id # i
    /\ orders[i].born \in {Tick(d - 1, "close"), Tick(d, "open")}

\* order i was applied ahead of order j in the drain of timestamp d
AppliedAhead(i, j, d) ==
    \E m, n \in EntriesAt(d) : m < n /\ apply_log[m].id = i /\ apply_log[n].id = j

\* in the drain of timestamp d order i has to go ahead of order j
GoesAhead(i, j, d) ==
    /\ i # j
    /\ orders[i].priority = orders[j].priority
    /\ \/ CarriedInto(i, d) /\ NewFor(j, d)
       \/ /\ d > 1
          /\ StayedOpenAt(i, d - 1)
          /\ StayedOpenAt(j, d - 1)
          /\ AppliedAhead(i, j, d - 1)
          /\ ~AppliedAhead(j, i, d - 1)

\* C35: in the drain of timestep t+1, an order that stayed OPEN in the drain of t
\* (and every suborder scheduled at t) is applied before any order of the same
\* priority that was enqueued in on_close at t or in on_open at t+1, and
\* carried-over orders of the same priority keep the relative order in which they
\* were applied at t: no order is applied while one that has to go ahead of it
\* still waits in the queue, and none is applied after one it has to go ahead of.
CarriedFirstAmongEquals ==
    pc = "drain" =>
        \A k \in EntriesAt(day) :
            /\ \A q \in 1..Len(queue) : ~GoesAhead(queue[q], apply_log[k].id, day)
            /\ \A m \in EntriesAt(day) :
                  GoesAhead(apply_log[m].id, apply_log[k].id, day) => m < k

\* C35 witness: in one drain two orders that had stayed OPEN the timestep before
\* were applied in the order of the timestep before, and after them an order of
\* the same priority that a strategy had appended since
CarriedThenNew ==
    /\ pc = "drain"
    /\ \E l, m, n \in EntriesAt(day) :
          /\ l < m /\ m < n
          /\ GoesAhead(apply_log[l].id, apply_log[m].id, day)
          /\ StayedOpenAt(apply_log[m].id, day - 1)
          /\ GoesAhead(apply_log[m].id, apply_log[n].id, day)
          /\ NewFor(apply_log[n].id, day)

-----------------------------------------------------------------------------
(* C36 *)

\* the orders the deduplication of this step hands to orders_processed
ReplacedNow == SubSeq(orders_processed', Len(orders_processed) + 1, Len(orders_processed'))

\* s is t with some entries left out
RECURSIVE IsSubsequence(_, _)
IsSubsequence(s, t) ==
    IF s = <<>> THEN TRUE
    ELSE IF t = <<>> THEN FALSE
    ELSE IF Head(s) = Head(t) THEN IsSubsequence(Tail(s), Tail(t))
    ELSE IsSubsequence(s, Tail(t))

DedupEffectStep ==
    Deduplicates =>
        /\ \A m, n \in 1..Len(queue') :
              (m # n /\ orders'[queue'[m]].key # None) =>
                  orders'[queue'[m]].key # orders'[queue'[n]].key
        /\ \A i \in 1..Len(orders) :
              orders[i].key = None => orders'[i].status = orders[i].status
        /\ \A k \in 1..Len(ReplacedNow) :
              /\ orders[ReplacedNow[k]].key # None
              /\ orders'[ReplacedNow[k]].status = "REPLACED"
        /\ IsSubsequence(queue', queue)
        /\ \A i \in 1..Len(orders) :
              Occurrences(queue', i) + Occurrences(ReplacedNow, i) = Occurrences(queue, i)

\* C36: immediately after the runner's deduplication step no non-null key occurs
\* more than once in the unprocessed queue; an order without a key is never
\* REPLACED; the retained orders keep their relative order; and the queue's orders
\* together with the returned REPLACED orders are exactly the orders that were in
\* the queue before the step.
DedupEffect ==
    /\ [](\A i \in 1..Len(orders) : orders[i].status = "REPLACED" => orders[i].key # None)
    /\ [][DedupEffectStep]_vars

\* C36 witness: a deduplication has just replaced one of two orders with the same
\* key and left the other in the queue together with an order without a key
ReplacedOneKeptTwo ==
    /\ pc = "enter_close"
    /\ last_dedup.day = day
    /\ Len(last_dedup.before) = 3
    /\ Len(last_dedup.removed) = 1
    /\ Len(queue) = 2
    /\ \E m, n \in 1..2 :
          /\ orders[queue[m]].key = None
          /\ orders[queue[n]].key = orders[last_dedup.removed[1]].key
          /\ orders[queue[n]].status = "OPEN"
    /\ orders[last_dedup.removed[1]].status = "REPLACED"

-----------------------------------------------------------------------------
(* C37 *)

\* this step of the drain appends order c to orders_next_ts as a suborder (not as
\* the order just applied, which is appended once more when it stays OPEN)
ScheduledNow(c) ==
    /\ Applies
    /\ Occurrences(orders_next_ts', c) - Occurrences(orders_next_ts, c)
         > (IF Last(apply_log').id = c /\ Last(apply_log').status = "OPEN" THEN 1 ELSE 0)

\* order c has been in the unprocessed queue or in orders_next_ts before this step
ScheduledBefore(c) ==
    \/ c \in SeqToSet(queue) \cup SeqToSet(orders_next_ts)
    \/ \E k \in 1..Len(apply_log) : apply_log[k].id = c

ChildOnceStep ==
    \A c \in 1..Len(orders') :
        ScheduledNow(c) =>
            /\ orders'[c].parent = Last(apply_log').id
            /\ orders'[orders'[c].parent].status = "COMPLETE"
            /\ ~ScheduledBefore(c)
            /\ Occurrences(orders_next_ts', c) = 1

\* C37: each order in some order's suborders list is appended to the unprocessed
\* queue exactly once, and only after its parent reached COMPLETE: a child is not
\* enqueued again at a later timestep while its parent is still OPEN, and no child
\* is enqueued for a parent that became CANCELLED or MANDATE_FAILED.
ChildScheduledOnce == [][ChildOnceStep]_vars

-----------------------------------------------------------------------------
(* C38 *)

\* the calls of apply on order i that ended with status COMPLETE
CompletionsOf(i) ==
    {k \in 1..Len(apply_log) : apply_log[k].id = i /\ apply_log[k].status = "COMPLETE"}

\* order i is COMPLETE by one call of apply whose batch the ledger's test accepted,
\* and its post-completion hook has been invoked once
CompletedByBooking(i) ==
    /\ orders[i].posted = 1
    /\ Cardinality(CompletionsOf(i)) = 1
    /\ \A k \in CompletionsOf(i) : apply_log[k].tested /\ apply_log[k].posted

\* a call of apply that ends COMPLETE has had its batch accepted by the ledger's
\* test and booked, and has invoked the post-completion hook
CompletesByBookingStep ==
    (Applies /\ Last(apply_log').status = "COMPLETE") =>
        LET e == Last(apply_log')
        IN  /\ e.tested
            /\ e.posted
            /\ test_trades(books[e.book], Mandates(scen, e.book), e.trades)
            /\ books'[e.book].transactions = books[e.book].transactions \o e.trades
            /\ orders'[e.id].posted = orders[e.id].posted + 1

\* C38: every order whose status is COMPLETE had its trade batch (possibly empty)
\* accepted by the ledger's mandate test and booked, and had its post-completion
\* hook invoked exactly once with that batch; no order becomes COMPLETE by another
\* path, whatever status its pre-execution hook returns.
CompleteMeansBooked ==
    /\ [](\A i \in 1..Len(orders) : orders[i].status = "COMPLETE" => CompletedByBooking(i))
    /\ [][CompletesByBookingStep]_vars

-----------------------------------------------------------------------------
(* C39 *)

\* this step is a call of apply that handed its batch to the ledger's test
TestsBatch == Applies /\ Last(apply_log').tested

\* the batch of this step passes the runner's mandates on the ledger it goes to
PassesRunnerMandates ==
    test_trades(books[Last(apply_log').book], RunnerMandates(scen), Last(apply_log').trades)

\* C39: a mandate passed to the StrategyRunner for an asset is checked for every
\* trade batch in that asset on every ledger to which the runner applies orders,
\* both when the runner creates the default ledger 'Main' and when the ledgers are
\* supplied explicitly: a batch is booked only if it passes the runner's mandates.
RunnerMandatesEnforced ==
    [][TestsBatch => (Last(apply_log').status = "COMPLETE" => PassesRunnerMandates)]_vars

-----------------------------------------------------------------------------
(* C40 *)

\* the drain of the current timestamp has begun
InDrain == pc = "drain" \/ Drained

\* a turn of the drain loop takes one order from the queue and puts none in
DrainStep == (pc = "drain" /\ pc' = "drain") => (Applies /\ queue' = Tail(queue))

\* the drain loop is left only with an empty queue, or by an exception
DrainExit == (pc = "drain" /\ pc' # "drain") => (queue = <<>> \/ pc' = "raised")

\* the timestamps are gone through once each, and the run ends after the last
CalendarStep ==
    /\ day' \in {day, day + 1}
    /\ day' = day + 1 => pc = "eod" /\ pc' = "enter_open"
    /\ (pc # "done" /\ pc' = "done") => (pc = "eod" /\ day = NumDays)
    /\ pc = "done" => pc' = "done"

\* no order is applied twice in the drain of the current timestamp, every order
\* applied was in the queue when the drain began, and when the drain has ended
\* every order that was in the queue when it began has been applied
AppliedOncePerDrain ==
    InDrain =>
        /\ \A i \in 1..Len(orders) : Occurrences(AppliedAt(day), i) <= 1
        /\ SeqToSet(AppliedAt(day)) \subseteq SeqToSet(presort)
        /\ Drained => SeqToSet(AppliedAt(day)) = SeqToSet(presort)

\* C40: the drain loop of a timestep ends with an empty queue after applying each
\* order that was in the queue at the start of the drain exactly once, also when
\* hooks return OPEN and completed orders add suborders; orders re-queued or
\* created during the drain are not applied before the next timestep, and the run
\* ends after the last timestamp.
DrainAppliesOnce ==
    /\ []AppliedOncePerDrain
    /\ [][DrainStep /\ DrainExit /\ CalendarStep]_vars

====
